---- MODULE Spec2Model ----
(***************************************************************************)
(* TrainPixels (src/src/main.py): the boot orchestrator with its two load  *)
(* workers, the utility runner, the track player and the scheduler loop,   *)
(* as a state machine over the two LED surfaces and the loaded collections.*)
(***************************************************************************)
EXTENDS Integers, Sequences, FiniteSets, TLC

\* ------------------------------------------------------------------ bounds
\* files listed in tracks.d / utils.d
MaxTrackFiles == 2
MaxUtilFiles == 2
\* boot animation frames drawn while a load worker is still alive
MaxAnimFrames == 2
\* track passes of the scheduler loop that are followed
MaxPasses == 2
\* utility records / path steps of the loader-only and player-only specifications
MaxLoadDocs == 2
MaxPathLen == 2

\* a key that a JSON document does not carry (dict.get gives None / the default)
Absent == "<absent>"

\* ----------------------------------------------------------- configuration
VARIABLES
  config,          \* the configuration document (input)
  hw,              \* TRUE when the board and neopixel libraries can be imported
  pipe             \* how many documents the pipe under a Queue buffers (input)

\* config.json: found is FALSE when neither file exists or the file does not
\* decode; missing is the set of the keys that the document lacks
Config(found, tlen, ulen, tpin, upin, missing) ==
  [found |-> found, TRACK_PIXEL_LENGTH |-> tlen, UTIL_PIXEL_LENGTH |-> ulen,
   TRACK_PIN |-> tpin, UTIL_PIN |-> upin, missing |-> missing]

\* config.get(key, default)
ConfigGet(cfg, key, default) == IF key \in cfg.missing THEN default ELSE cfg[key]

\* the JSON number 0 given as a pin
IntZero == "<0>"

\* ------------------------------------------------------- program constants
\* The pixel counts and the pins are values of the configuration document as
\* fetch_config reads them (config.get(key, default)); the status LED and the
\* speed modifier are at their defaults; SETTLE_FRAMES, PACE_BASE and PAUSE
\* are literals of boot_startup_sequence and run_random_track.
TRACK_PIXEL_LENGTH == ConfigGet(config, "TRACK_PIXEL_LENGTH", 0)
UTIL_PIXEL_LENGTH == ConfigGet(config, "UTIL_PIXEL_LENGTH", 0)
TRACK_PIN == ConfigGet(config, "TRACK_PIN", "")
UTIL_PIN == ConfigGet(config, "UTIL_PIN", "")
STATUS_UTIL_LED == 0
TRACK_SPEED_MODIFIER == 1
SETTLE_FRAMES == 20
PACE_BASE == 10
PAUSE == -1

\* ---------------------------------------------------------------- colours
\* COLOR_TABLE of the configuration: name -> (r, g, b, brightness); the
\* brightness scale is kept in percent so that int(c * brightness) is exact.
COLOR_TABLE ==
  [n \in {"white", "red", "off", "green", "blue",
          "status_indicator_yellow", "status_indicator_green"} |->
     CASE n = "white" -> <<255, 255, 255, 100>>
       [] n = "red" -> <<255, 0, 0, 100>>
       [] n = "off" -> <<0, 0, 0, 0>>
       [] n = "green" -> <<0, 255, 0, 50>>
       [] n = "blue" -> <<0, 0, 255, 50>>
       [] n = "status_indicator_yellow" -> <<255, 255, 0, 20>>
       [] OTHER -> <<0, 255, 0, 20>>]

OFF == <<0, 0, 0>>

\* mutant: a name missing from the table resolves to white
get_color_UnknownWhite(name) ==
  IF name \in DOMAIN COLOR_TABLE THEN COLOR_TABLE[name] ELSE COLOR_TABLE["white"]

get_color(name) ==
  IF name \in DOMAIN COLOR_TABLE THEN COLOR_TABLE[name] ELSE <<0, 0, 0, 0>>

\* (int(r * brightness), int(g * brightness), int(b * brightness))
Scaled(c) == <<(c[1] * c[4]) \div 100, (c[2] * c[4]) \div 100, (c[3] * c[4]) \div 100>>

\* --------------------------------------------------------------- surfaces
\* A surface is its pixel buffer (buf), the frame last flushed by show()
\* (shown), and whether it is the DummyPixels stand-in (an out-of-range index
\* is ignored there, while the NeoPixel driver raises IndexError).
AllOff(n) == [i \in 0..(n - 1) |-> OFF]

\* pixels[idx] = value; "ok" is FALSE when the assignment raises
SetItem(buf, n, dummy, idx, value) ==
  IF idx \in 0..(n - 1) THEN [ok |-> TRUE, buf |-> [buf EXCEPT ![idx] = value]]
  ELSE [ok |-> dummy, buf |-> buf]

\* --------------------------------------------------------------- event log
Ev(op, surf, led, color, res) ==
  [op |-> op, surf |-> surf, led |-> led, color |-> color, res |-> res]

EvSet(surf, led, color, res) == Ev("set", surf, led, color, res)
EvShow(surf) == Ev("show", surf, -1, "", 0)
EvFill(surf) == Ev("fill", surf, -1, "", 0)
EvWait(dur) == Ev("wait", "", dur, "", 0)
EvUtil(id, res) == Ev("util", "", -1, id, res)

\* set_t_led / set_u_led on a surface state s = [buf, shown]: the new surface,
\* the return value and the events
set_led(s, n, dummy, surf, led_index, color_name, show) ==
  LET w == SetItem(s.buf, n, dummy, led_index, Scaled(get_color(color_name)))
  IN IF w.ok
     THEN [s |-> [buf |-> w.buf, shown |-> IF show THEN w.buf ELSE s.shown],
           res |-> 0,
           evs |-> <<EvSet(surf, led_index, color_name, 0)>>
                   \o (IF show THEN <<EvShow(surf)>> ELSE <<>>)]
     ELSE [s |-> s, res |-> 1, evs |-> <<EvSet(surf, led_index, color_name, 1)>>]

\* -------------------------------------------------------------- documents
\* A file of a document directory: its name ends in ".json" or not (json), its
\* content parses or json.load raises (ok), and the parsed record (doc).
File(json, ok, doc) == [json |-> json, ok |-> ok, doc |-> doc]

\* One path step, as run_random_track reads it: a bare integer (shape "int"),
\* or a list [pos] / [pos, utils] (shape "list", n its length) whose second
\* element is null (ukind "null"), a single id (ukind "str") or a list of ids
\* (ukind "list"; "" stands for an empty or null entry).
StepRec(shape, n, pos, ukind, uids) ==
  [shape |-> shape, n |-> n, pos |-> pos, ukind |-> ukind, uids |-> uids]
Bare(pos) == StepRec("int", 1, pos, "none", <<>>)
List1(pos) == StepRec("list", 1, pos, "none", <<>>)
ListNull(pos) == StepRec("list", 2, pos, "null", <<>>)
ListStr(pos, id) == StepRec("list", 2, pos, "str", <<id>>)
ListIds(pos, ids) == StepRec("list", 2, pos, "list", ids)

\* Track record; has_path is FALSE when the document has no "track_path" key
Track(id, speed, has_path, path) ==
  [id |-> id, speed |-> speed, has_path |-> has_path, track_path |-> path]

\* One entry of a utility's "utils" list; has_led FALSE / color Absent when the
\* key is missing. The keys blink, duration and repeat may be present in the
\* document; run_util_by_id reads only 'led' and 'color'.
Item(has_led, led, color) ==
  [has_led |-> has_led, led |-> led, color |-> color, blink |-> FALSE,
   duration |-> 0, repeat |-> 1]

\* an entry {led, color, blink: true, duration, repeat}
BlinkItem(led, color, duration, repeat) ==
  [has_led |-> TRUE, led |-> led, color |-> color, blink |-> TRUE,
   duration |-> duration, repeat |-> repeat]

\* Utility record; the flags are "true", "false" or Absent
Util(id, enabled_on_init, is_random, utils) ==
  [id |-> id, enabled_on_init |-> enabled_on_init, is_random |-> is_random,
   utils |-> utils]

\* util.get(flag, False) as a truth value
Truthy(flag) == flag = "true"

\* ----------------------------------------------------------------- loaders
RECURSIVE ParsedDocs_StopAtNonJson(_)
\* mutant: the listing loop ends at the first file that is not ".json"
ParsedDocs_StopAtNonJson(files) ==
  IF files = <<>> THEN <<>>
  ELSE IF Head(files).json
       THEN <<Head(files).doc>> \o ParsedDocs_StopAtNonJson(Tail(files))
       ELSE <<>>

RECURSIVE ParsedDocs(_)
\* the records appended by the listing loop; called only when no file raises
ParsedDocs(files) ==
  IF files = <<>> THEN <<>>
  ELSE IF Head(files).json THEN <<Head(files).doc>> \o ParsedDocs(Tail(files))
       ELSE ParsedDocs(Tail(files))

\* json.load raises on some ".json" file of the listing
LoadRaises(files) == \E k \in 1..Len(files) : files[k].json /\ ~files[k].ok

\* mutant: an empty track collection is put on the queue like any other
track_build_init_EmptyOk(files) ==
  IF LoadRaises(files) THEN [put |-> <<>>, exitcode |-> 1]
  ELSE [put |-> <<ParsedDocs(files)>>, exitcode |-> 0]

\* track_build_init: what the worker puts on its queue and its exit status
track_build_init(files) ==
  IF LoadRaises(files) THEN [put |-> <<>>, exitcode |-> 1]
  ELSE IF Len(ParsedDocs(files)) = 0 THEN [put |-> <<>>, exitcode |-> 1]
  ELSE [put |-> <<ParsedDocs(files)>>, exitcode |-> 0]

\* mutant: is_random defaults to True when the key is absent
Classify_RandomDefaultTrue(util) ==
  IF Truthy(util.enabled_on_init) THEN "init"
  ELSE IF util.is_random \in {"true", Absent} THEN "random"
  ELSE "trigger"

\* the category the separation loop gives one utility
Classify(util) ==
  IF Truthy(util.enabled_on_init) THEN "init"
  ELSE IF Truthy(util.is_random) /\ ~Truthy(util.enabled_on_init) THEN "random"
  ELSE IF ~Truthy(util.is_random) /\ ~Truthy(util.enabled_on_init) THEN "trigger"
  ELSE "unknown"

Sets(init, trigger, random) == [init |-> init, trigger |-> trigger, random |-> random]

RECURSIVE Separate_NoContinue(_, _)
\* mutant: the init branch lacks its "continue", so an init utility with
\* is_random set is appended to the random list as well
Separate_NoContinue(utils, acc) ==
  IF utils = <<>> THEN acc
  ELSE LET util == Head(utils)
           a1 == IF Truthy(util.enabled_on_init)
                 THEN [acc EXCEPT !.init = Append(@, util)] ELSE acc
           a2 == IF Truthy(util.is_random)
                 THEN [a1 EXCEPT !.random = Append(@, util)] ELSE a1
           a3 == IF ~Truthy(util.is_random) /\ ~Truthy(util.enabled_on_init)
                 THEN [a2 EXCEPT !.trigger = Append(@, util)] ELSE a2
       IN Separate_NoContinue(Tail(utils), a3)

RECURSIVE Separate(_, _)
\* the separation loop: each utility is appended to the list of its category
Separate(utils, acc) ==
  IF utils = <<>> THEN acc
  ELSE LET util == Head(utils)
           cat == Classify(util)
       IN Separate(Tail(utils),
            IF cat = "init" THEN [acc EXCEPT !.init = Append(@, util)]
            ELSE IF cat = "random" THEN [acc EXCEPT !.random = Append(@, util)]
            ELSE IF cat = "trigger" THEN [acc EXCEPT !.trigger = Append(@, util)]
            ELSE acc)

\* mutant: the exception handler of the utility loader puts nothing
util_build_init_NoPutOnError(files) ==
  IF LoadRaises(files) THEN [put |-> <<>>, exitcode |-> 0]
  ELSE IF Len(ParsedDocs(files)) = 0
       THEN [put |-> <<Sets(<<>>, <<>>, <<>>)>>, exitcode |-> 0]
  ELSE [put |-> <<Separate(ParsedDocs(files), Sets(<<>>, <<>>, <<>>))>>, exitcode |-> 0]

\* util_build_init: what the worker puts on its queue and its exit status
util_build_init(files) ==
  IF LoadRaises(files) THEN [put |-> <<Sets(<<>>, <<>>, <<>>)>>, exitcode |-> 0]
  ELSE IF Len(ParsedDocs(files)) = 0
       THEN [put |-> <<Sets(<<>>, <<>>, <<>>)>>, exitcode |-> 0]
  ELSE [put |-> <<Separate(ParsedDocs(files), Sets(<<>>, <<>>, <<>>))>>, exitcode |-> 0]

\* -------------------------------------------------------------- validation
Ids(recs) == [k \in 1..Len(recs) |-> recs[k].id]

\* len(ids) != len(set(ids))
HasDuplicates(ids) == Len(ids) # Cardinality({ids[k] : k \in 1..Len(ids)})

RECURSIVE WithId(_)
\* [util['id'] for util in utils if 'id' in util]
WithId(utils) ==
  IF utils = <<>> THEN <<>>
  ELSE IF Head(utils).id # Absent THEN <<Head(utils).id>> \o WithId(Tail(utils))
       ELSE WithId(Tail(utils))

DuplicateTrackIds(tracks) == HasDuplicates(Ids(tracks))

\* mutant: only the trigger utilities are checked for duplicate ids
DuplicateUtilIds_TriggerOnly(init, trigger, random) == HasDuplicates(WithId(trigger))

DuplicateUtilIds(init, trigger, random) == HasDuplicates(WithId(init \o trigger \o random))

\* --------------------------------------------------------- utility lookup
RECURSIVE FirstWithId(_, _)
\* get_util_from_id over a list: its first record whose .get('id') equals id
\* (an id-less record answers the id None), or <<>> for None
FirstWithId(utils, id) ==
  IF utils = <<>> THEN <<>>
  ELSE IF Head(utils).id = id THEN <<Head(utils)>>
       ELSE FirstWithId(Tail(utils), id)

\* mutant: an id that matches nothing falls back to the first utility
get_util_from_id_Fallback(init, trigger, random, id) ==
  LET all == (init \o trigger) \o random
  IN IF FirstWithId(all, id) # <<>> THEN FirstWithId(all, id)
     ELSE IF all # <<>> THEN <<all[1]>> ELSE <<>>

get_util_from_id(init, trigger, random, id) == FirstWithId(init \o trigger \o random, id)

\* ---------------------------------------------------------- utility runner
RECURSIVE RunItems(_, _, _)
\* the loop over a utility's "utils" list on the utility surface: an item
\* without 'led' or 'color' is skipped, the others are written without show;
\* acc = [s, changed, evs]
RunItems(items, dummy, acc) ==
  IF items = <<>> THEN acc
  ELSE LET item == Head(items)
       IN IF ~item.has_led \/ item.color = Absent
          THEN RunItems(Tail(items), dummy, acc)
          ELSE LET w == set_led(acc.s, UTIL_PIXEL_LENGTH, dummy, "u", item.led,
                                item.color, FALSE)
               IN RunItems(Tail(items), dummy,
                    [s |-> w.s,
                     changed |-> acc.changed \/ w.res = 0,
                     evs |-> acc.evs \o w.evs])

\* u_pixels.show()
Show(s) == [s EXCEPT !.shown = s.buf]

\* mutant: the utility surface is shown whether or not a write was applied
run_util_by_id_AlwaysShow(init, trigger, random, s, dummy, util_id) ==
  LET found == get_util_from_id(init, trigger, random, util_id)
  IN IF found = <<>>
     THEN [s |-> s, res |-> 1, ran |-> <<>>, evs |-> <<>>]
     ELSE IF found[1].utils = <<>>
     THEN [s |-> s, res |-> 2, ran |-> found, evs |-> <<>>]
     ELSE LET r == RunItems(found[1].utils, dummy,
                            [s |-> s, changed |-> FALSE, evs |-> <<>>])
          IN [s |-> Show(r.s),
              res |-> 0,
              ran |-> found,
              evs |-> r.evs \o <<EvShow("u")>>]

\* run_util_by_id on the utility surface s: the new surface, the return value,
\* the utility found (<<>> when none) and the events
run_util_by_id(init, trigger, random, s, dummy, util_id) ==
  LET found == get_util_from_id(init, trigger, random, util_id)
  IN IF found = <<>>
     THEN [s |-> s, res |-> 1, ran |-> <<>>, evs |-> <<>>]
     ELSE IF found[1].utils = <<>>
     THEN [s |-> s, res |-> 2, ran |-> found, evs |-> <<>>]
     ELSE LET r == RunItems(found[1].utils, dummy,
                            [s |-> s, changed |-> FALSE, evs |-> <<>>])
          IN [s |-> IF r.changed THEN Show(r.s) ELSE r.s,
              res |-> 0,
              ran |-> found,
              evs |-> r.evs \o (IF r.changed THEN <<EvShow("u")>> ELSE <<>>)]

\* ------------------------------------------------------------ path helpers
\* the position a step names (i[0] of a list, the integer itself otherwise)
StepPos(step) == step.pos

\* mutant: the bound utilities are taken in reverse order
UtilsToRun_Reversed(step) ==
  IF step.shape = "list" /\ step.n > 1 /\ step.ukind \in {"str", "list"}
  THEN LET ids == SelectSeq(step.uids, LAMBDA id : id # "")
       IN [k \in 1..Len(ids) |-> ids[Len(ids) + 1 - k]]
  ELSE <<>>

\* the utility ids run_random_track invokes for a step, in order
UtilsToRun(step) ==
  IF step.shape = "list" /\ step.n > 1 /\ step.ukind \in {"str", "list"}
  THEN SelectSeq(step.uids, LAMBDA id : id # "")
  ELSE <<>>

RECURSIVE get_track_path(_)
get_track_path(track_path) ==
  IF track_path = <<>> THEN <<>>
  ELSE <<StepPos(Head(track_path))>> \o get_track_path(Tail(track_path))

RECURSIVE count_track_utils(_)
count_track_utils(track_path) ==
  IF track_path = <<>> THEN 0
  ELSE LET step == Head(track_path)
           here == IF step.shape = "list" /\ step.n > 1
                   THEN IF step.ukind = "list" THEN Len(step.uids)
                        ELSE IF step.ukind = "str" /\ step.uids[1] # "" THEN 1
                        ELSE 0
                   ELSE 0
       IN here + count_track_utils(Tail(track_path))

\* wheel(pos) of the boot animation
wheel(pos) ==
  IF pos < 85 THEN <<pos * 3, 255 - pos * 3, 0>>
  ELSE IF pos < 170 THEN <<255 - (pos - 85) * 3, 0, (pos - 85) * 3>>
  ELSE <<0, (pos - 170) * 3, 255 - (pos - 170) * 3>>

\* one frame of the boot animation written to the track buffer (brightness 0.2)
AnimFrame(frame) ==
  [i \in 0..(TRACK_PIXEL_LENGTH - 1) |->
     LET c == wheel(((i * 256) \div TRACK_PIXEL_LENGTH + frame * 8) % 256)
     IN <<c[1] \div 5, c[2] \div 5, c[3] \div 5>>]

\* ------------------------------------------------------------------- state
VARIABLES
  trackDir,        \* listing of tracks.d (input)
  utilDir,         \* listing of utils.d (input)
  dummy,           \* TRUE when the surfaces are DummyPixels
  pc,              \* position of the main control flow
  status,          \* "running", or the exit status "exit0" / "exit1"
  track_proc,      \* track load worker: [st, exitcode]
  util_proc,       \* utility load worker: [st, exitcode]
  track_queue,     \* items put by the track worker and not yet taken
  util_queue,      \* items put by the utility worker and not yet taken
  TRACKS,
  INIT_UTILS,
  TRIGGER_UTILS,
  RANDOM_UTILS,
  t_pixels,        \* track surface [buf, shown]
  u_pixels,        \* utility surface [buf, shown]
  boot_anim_frame,
  init_i,          \* index of the next init utility in execute_init_utils
  init_ran,        \* per executed init entry: the entry, the record run, the result
  track_config,    \* the selected track (NoTrack before the first selection)
  step_i,          \* index of the current path step
  util_i,          \* index of the next bound utility of the current step
  passes,          \* track selections made so far
  log,             \* surface writes, waits and utility runs since the pass began
  interrupted      \* a KeyboardInterrupt has been raised in the main process

\* the numpad key logger (controller.py), a program of its own
VARIABLES
  ctl_pc,          \* its main thread: "idle" (not started), "monitoring",
                   \* "stopping" (between the two stop_monitoring calls), "exited"
  running,         \* NumpadController.running
  current_input,   \* NumpadController.current_input, a sequence of key characters
  lock,            \* NumpadController.lock: 0 when free, else the holding thread
  lock_file,       \* LOCK_FILE exists
  cache_file,      \* the text of CACHE_FILE
  threads,         \* per monitored device: its monitor_device thread
  handled,         \* the keys handled so far, each with its device (history)
  lock_from_write  \* the lock file in place was left by a successful cache write

vars ==
  <<trackDir, utilDir, dummy, pc, status, track_proc, util_proc, track_queue,
    util_queue, TRACKS, INIT_UTILS, TRIGGER_UTILS, RANDOM_UTILS, t_pixels,
    u_pixels, boot_anim_frame, init_i, init_ran, track_config, step_i, util_i,
    passes, log, interrupted, config, hw, pipe, ctl_pc, running, current_input,
    lock, lock_file, cache_file, threads, handled, lock_from_write>>

inputVars == <<trackDir, utilDir, dummy>>
cfgVars == <<config, hw, pipe>>
ctlVars ==
  <<ctl_pc, running, current_input, lock, lock_file, cache_file, threads, handled,
    lock_from_write>>
envVars == <<inputVars, interrupted, cfgVars, ctlVars>>
workerVars == <<track_proc, util_proc, track_queue, util_queue>>
repoVars == <<TRACKS, INIT_UTILS, TRIGGER_UTILS, RANDOM_UTILS>>
playVars == <<track_config, step_i, util_i, passes, log>>
initVars == <<init_i, init_ran>>

\* ---------------------------------------------------------------- fixtures
NoTrack == Track(Absent, 1, FALSE, <<>>)
NoUtil == Util(Absent, Absent, Absent, <<>>)

TrackA == Track("t1", 1, TRUE, <<Bare(0), ListIds(1, <<"a", "zz">>)>>)
TrackB == Track("t2", 2, FALSE, <<>>)
TrackFiles ==
  { File(TRUE, TRUE, TrackA), File(TRUE, TRUE, TrackB),
    File(TRUE, FALSE, NoTrack), File(FALSE, TRUE, NoTrack) }

UtilA == Util("a", Absent, Absent, <<Item(TRUE, 0, "green")>>)
UtilI == Util("i", "true", "true", <<Item(TRUE, 1, "blue")>>)
UtilN1 == Util(Absent, "true", Absent, <<Item(TRUE, 2, "green")>>)
UtilN2 == Util(Absent, "true", "false", <<Item(TRUE, 2, "blue")>>)
UtilFiles ==
  { File(TRUE, TRUE, UtilA), File(TRUE, TRUE, UtilI), File(TRUE, TRUE, UtilN1),
    File(TRUE, TRUE, UtilN2), File(TRUE, FALSE, NoUtil) }

SeqsUpTo(S, n) == UNION {[1..k -> S] : k \in 0..n}

\* ------------------------------------------------------------------- Init
\* a complete configuration document
FullConfig == Config(TRUE, 3, 3, "D18", "D21", {})

\* the globals as the module-level code leaves them
\* the monitored devices, one monitor_device thread each
Devices == {1, 2}

\* a monitor_device thread: where it is (pc), the events of its device and the
\* index of the next one (events, i), the key in hand, and what
\* write_to_cache returned to it (res)
Thread(tpc, events, i, key, res) ==
  [pc |-> tpc, events |-> events, i |-> i, key |-> key, res |-> res]

\* the key logger has not been started
CtlIdle ==
  /\ ctl_pc = "idle"
  /\ running = FALSE
  /\ current_input = <<>>
  /\ lock = 0
  /\ lock_file = FALSE
  /\ cache_file = <<>>
  /\ threads = [d \in Devices |-> Thread("idle", <<>>, 1, "", "")]
  /\ handled = <<>>
  /\ lock_from_write = FALSE

Globals ==
  /\ status = "running"
  /\ track_proc = [st |-> "idle", exitcode |-> 0]
  /\ util_proc = [st |-> "idle", exitcode |-> 0]
  /\ track_queue = <<>>
  /\ util_queue = <<>>
  /\ TRACKS = <<>>
  /\ INIT_UTILS = <<>>
  /\ TRIGGER_UTILS = <<>>
  /\ RANDOM_UTILS = <<>>
  /\ t_pixels = [buf |-> AllOff(TRACK_PIXEL_LENGTH), shown |-> AllOff(TRACK_PIXEL_LENGTH)]
  /\ u_pixels = [buf |-> AllOff(UTIL_PIXEL_LENGTH), shown |-> AllOff(UTIL_PIXEL_LENGTH)]
  /\ boot_anim_frame = 0
  /\ init_i = 1
  /\ init_ran = <<>>
  /\ track_config = NoTrack
  /\ step_i = 1
  /\ util_i = 1
  /\ passes = 0
  /\ log = <<>>
  /\ interrupted = FALSE

\* the module-level state before main() runs, with a complete configuration:
\* the NeoPixel surfaces where the libraries import, the dummy ones elsewhere
Fresh ==
  /\ pc = "start"
  /\ hw = ~dummy
  /\ pipe = Len(trackDir) + Len(utilDir)
  /\ Globals
  /\ CtlIdle

Init ==
  /\ config = FullConfig
  /\ trackDir \in SeqsUpTo(TrackFiles, MaxTrackFiles)
  /\ utilDir \in SeqsUpTo(UtilFiles, MaxUtilFiles)
  /\ dummy \in BOOLEAN
  /\ Fresh

\* Loader inputs: utility documents with every combination of the two flags
\* (true, false, absent), with and without an id, beside one valid track.
Flags == {"true", "false", Absent}
LoadUtilFiles ==
  { File(TRUE, TRUE, Util(id, e, r, <<Item(TRUE, 1, "blue")>>)) :
      id \in {"a", "b"}, e \in Flags, r \in Flags }
  \cup { File(TRUE, FALSE, NoUtil), File(FALSE, TRUE, NoUtil) }

InitLoad ==
  /\ config = FullConfig
  /\ trackDir = <<File(TRUE, TRUE, TrackA)>>
  /\ utilDir \in SeqsUpTo(LoadUtilFiles, MaxLoadDocs)
  /\ dummy = TRUE
  /\ Fresh

\* Player inputs: one track whose path is any sequence of the steps below,
\* over a fixed utility directory ("a", "b", "k", "f" and "c" exist, "zz" does
\* not).
UtilB == Util("b", "false", "false", <<Item(TRUE, 2, "blue"), Item(FALSE, 0, "green")>>)
\* "k" is one blinking entry; no entry of "f" can be written (the first lacks
\* 'led', the index of the second is past the end of the surface)
UtilK == Util("k", "false", "false", <<BlinkItem(0, "green", 1, 3)>>)
UtilF ==
  Util("f", "false", "false",
       <<Item(FALSE, 0, "green"), Item(TRUE, UTIL_PIXEL_LENGTH, "green")>>)
\* "c" names a color that is not in the color table, on the LED that the init
\* utility "i" lights
UtilC == Util("c", "false", "false", <<Item(TRUE, 1, "purple")>>)
PlayUtilDir ==
  <<File(TRUE, TRUE, UtilA), File(TRUE, TRUE, UtilB), File(TRUE, TRUE, UtilI),
    File(TRUE, TRUE, UtilK), File(TRUE, TRUE, UtilF), File(TRUE, TRUE, UtilC)>>
PlaySteps ==
  { Bare(0), Bare(1), Bare(2), Bare(PAUSE), Bare(TRACK_PIXEL_LENGTH),
    ListIds(1, <<"a", "b">>), ListIds(0, <<"zz", "a">>), ListStr(2, "b"),
    ListIds(PAUSE, <<"", "a">>), ListNull(0), ListStr(0, "k"), ListStr(1, "f"),
    ListStr(2, "c") }
PlayPaths == SeqsUpTo(PlaySteps, MaxPathLen) \ {<<>>}

InitPlay ==
  /\ config = FullConfig
  /\ trackDir \in {<<File(TRUE, TRUE, Track("t1", 1, TRUE, path))>> : path \in PlayPaths}
  /\ utilDir = PlayUtilDir
  /\ dummy \in BOOLEAN
  /\ Fresh

\* Configuration inputs: no usable document, a complete one, one without each
\* required key, and one whose track pin is the number 0; the documents are
\* tried where the libraries import and where they do not.
Configs ==
  { Config(FALSE, 0, 0, "", "", {}), FullConfig,
    Config(TRUE, 0, 3, "D18", "D21", {"TRACK_PIXEL_LENGTH"}),
    Config(TRUE, 3, 0, "D18", "D21", {"UTIL_PIXEL_LENGTH"}),
    Config(TRUE, 3, 3, "", "D21", {"TRACK_PIN"}),
    Config(TRUE, 3, 3, "D18", "", {"UTIL_PIN"}),
    Config(TRUE, 3, 3, IntZero, "D21", {}) }

\* the process before its module-level code has run (dummy is set by that code)
InitConfig ==
  /\ config \in Configs
  /\ hw \in BOOLEAN
  /\ trackDir = <<File(TRUE, TRUE, TrackA)>>
  /\ utilDir = <<File(TRUE, TRUE, UtilA), File(TRUE, TRUE, UtilI)>>
  /\ dummy = FALSE
  /\ pipe = Len(trackDir) + Len(utilDir)
  /\ pc = "module"
  /\ Globals
  /\ CtlIdle

\* Queue inputs: track collections of every size up to MaxTrackFiles, over
\* pipes that buffer one document or more.
InitQueue ==
  /\ config = FullConfig
  /\ trackDir \in SeqsUpTo({File(TRUE, TRUE, TrackA), File(TRUE, TRUE, TrackB)},
                            MaxTrackFiles)
  /\ utilDir = <<File(TRUE, TRUE, UtilI)>>
  /\ dummy = TRUE
  /\ hw = FALSE
  /\ pipe \in 1..MaxTrackFiles
  /\ pc = "start"
  /\ Globals
  /\ CtlIdle

\* ----------------------------------------------------------- boot actions
Exit(code) ==
  /\ pc' = "exited"
  /\ status' = code

\* the outcome of the module-level code: "exit1", or the kind of surfaces
\* that are constructed ("neopixel" / "dummy")
SurfaceConstruction(cfg, imports) ==
  LET tlen == ConfigGet(cfg, "TRACK_PIXEL_LENGTH", 0)
      ulen == ConfigGet(cfg, "UTIL_PIXEL_LENGTH", 0)
      tpin == ConfigGet(cfg, "TRACK_PIN", "")
      upin == ConfigGet(cfg, "UTIL_PIN", "")
  IN IF ~cfg.found THEN "exit1"        \* fetch_config: sys.exit(1)
     ELSE IF imports
     THEN IF upin = IntZero \/ tpin = IntZero THEN "exit1"
          ELSE IF tlen = 0 \/ ulen = 0 THEN "exit1"
          \* getattr(board, "") raises AttributeError: the dummy fallback
          ELSE IF tpin = "" THEN "dummy"
          \* the track surface was built, getattr(board, "") raises, and the
          \* fallback calls getattr(board, TRACK_PIN) with the pin object:
          \* TypeError, not caught
          ELSE IF upin = "" THEN "exit1"
          ELSE "neopixel"
     \* ImportError: the dummy fallback; getattr with the number 0 as the
     \* attribute name raises TypeError, not caught
     ELSE IF tpin = IntZero \/ upin = IntZero THEN "exit1"
     ELSE "dummy"

\* the module-level code: fetch_config, the globals, the two surfaces
ModuleInit ==
  /\ pc = "module"
  /\ LET r == SurfaceConstruction(config, hw)
     IN IF r = "exit1"
        THEN /\ Exit("exit1")
             /\ UNCHANGED <<dummy, t_pixels, u_pixels>>
        ELSE /\ dummy' = (r = "dummy")
             /\ t_pixels' = [buf |-> AllOff(TRACK_PIXEL_LENGTH),
                             shown |-> AllOff(TRACK_PIXEL_LENGTH)]
             /\ u_pixels' = [buf |-> AllOff(UTIL_PIXEL_LENGTH),
                             shown |-> AllOff(UTIL_PIXEL_LENGTH)]
             /\ pc' = "start"
             /\ UNCHANGED status
  /\ UNCHANGED <<trackDir, utilDir, interrupted, cfgVars, ctlVars, workerVars,
                 repoVars,
                 boot_anim_frame, initVars, playVars>>

\* main() up to the start of the two load workers: the yellow status light,
\* then boot_startup_sequence creates the queues and starts both processes
MainStart ==
  /\ pc = "start"
  /\ LET w == set_led(u_pixels, UTIL_PIXEL_LENGTH, dummy, "u", STATUS_UTIL_LED,
                      "status_indicator_yellow", TRUE)
     IN u_pixels' = w.s
  /\ track_proc' = [track_proc EXCEPT !.st = "running"]
  /\ util_proc' = [util_proc EXCEPT !.st = "running"]
  /\ pc' = "loading"
  /\ UNCHANGED <<envVars, status, track_queue, util_queue, repoVars, t_pixels,
                 boot_anim_frame, initVars, playVars>>

\* the number of documents in an item put on the track queue / utility queue
TrackItemSize(item) == Len(item)
UtilItemSize(item) == Len(item.init) + Len(item.trigger) + Len(item.random)

\* Queue.put hands the item to the queue's feeder thread, and the process
\* exits only when that thread has written the whole item to the pipe: an
\* item larger than the pipe's buffer keeps the process alive ("flushing")
\* until the other end reads, and the orchestrator reads only after the join
ProcAfterPut(size, exitcode) ==
  [st |-> IF size > pipe THEN "flushing" ELSE "exited", exitcode |-> exitcode]

\* the track load worker, from start to exit
TrackWorker ==
  /\ track_proc.st = "running"
  /\ LET r == track_build_init(trackDir)
     IN /\ track_queue' = track_queue \o r.put
        /\ track_proc' = IF r.put = <<>> THEN [st |-> "exited", exitcode |-> r.exitcode]
                         ELSE ProcAfterPut(TrackItemSize(r.put[1]), r.exitcode)
  /\ UNCHANGED <<envVars, pc, status, util_proc, util_queue, repoVars, t_pixels,
                 u_pixels, boot_anim_frame, initVars, playVars>>

\* the utility load worker, from start to exit
UtilWorker ==
  /\ util_proc.st = "running"
  /\ LET r == util_build_init(utilDir)
     IN /\ util_queue' = util_queue \o r.put
        /\ util_proc' = IF r.put = <<>> THEN [st |-> "exited", exitcode |-> r.exitcode]
                        ELSE ProcAfterPut(UtilItemSize(r.put[1]), r.exitcode)
  /\ UNCHANGED <<envVars, pc, status, track_proc, track_queue, repoVars, t_pixels,
                 u_pixels, boot_anim_frame, initVars, playVars>>

\* one iteration of the loop "while track_proc.is_alive() or util_proc.is_alive()"
BootAnimFrame ==
  /\ pc = "loading"
  /\ track_proc.st # "exited" \/ util_proc.st # "exited"
  /\ boot_anim_frame < MaxAnimFrames
  /\ t_pixels' = [buf |-> AnimFrame(boot_anim_frame), shown |-> AnimFrame(boot_anim_frame)]
  /\ boot_anim_frame' = boot_anim_frame + 1
  /\ UNCHANGED <<envVars, pc, status, workerVars, repoVars, u_pixels, initVars,
                 playVars>>

\* mutant: a failed worker is reported but not fatal; its collections keep
\* their initial empty values
JoinWorkers_IgnoreFailure ==
  /\ pc = "loading"
  /\ track_proc.st = "exited" /\ util_proc.st = "exited"
  /\ TRACKS' = IF track_proc.exitcode # 0 THEN TRACKS ELSE Head(track_queue)
  /\ track_queue' = IF track_proc.exitcode # 0 THEN track_queue ELSE Tail(track_queue)
  /\ INIT_UTILS' = Head(util_queue).init
  /\ TRIGGER_UTILS' = Head(util_queue).trigger
  /\ RANDOM_UTILS' = Head(util_queue).random
  /\ util_queue' = Tail(util_queue)
  /\ t_pixels' = [buf |-> AnimFrame(boot_anim_frame + SETTLE_FRAMES - 1),
                  shown |-> AnimFrame(boot_anim_frame + SETTLE_FRAMES - 1)]
  /\ boot_anim_frame' = boot_anim_frame + SETTLE_FRAMES
  /\ pc' = "validate"
  /\ UNCHANGED <<envVars, status, track_proc, util_proc, u_pixels, initVars, playVars>>

\* both workers are joined: the exit statuses are checked, one item is taken
\* from each queue, and the animation runs its SETTLE_FRAMES further frames
JoinWorkers ==
  /\ pc = "loading"
  /\ track_proc.st = "exited" /\ util_proc.st = "exited"
  /\ IF track_proc.exitcode # 0 \/ util_proc.exitcode # 0
     THEN /\ Exit("exit1")
          /\ UNCHANGED <<track_queue, util_queue, repoVars, t_pixels, boot_anim_frame>>
     ELSE IF track_queue = <<>> \/ util_queue = <<>>
     THEN \* Queue.get() on an empty queue blocks
          /\ pc' = "blocked"
          /\ UNCHANGED <<status, track_queue, util_queue, repoVars, t_pixels,
                         boot_anim_frame>>
     ELSE /\ TRACKS' = Head(track_queue)
          /\ track_queue' = Tail(track_queue)
          /\ INIT_UTILS' = Head(util_queue).init
          /\ TRIGGER_UTILS' = Head(util_queue).trigger
          /\ RANDOM_UTILS' = Head(util_queue).random
          /\ util_queue' = Tail(util_queue)
          /\ t_pixels' = [buf |-> AnimFrame(boot_anim_frame + SETTLE_FRAMES - 1),
                          shown |-> AnimFrame(boot_anim_frame + SETTLE_FRAMES - 1)]
          /\ boot_anim_frame' = boot_anim_frame + SETTLE_FRAMES
          /\ pc' = "validate"
          /\ UNCHANGED status
  /\ UNCHANGED <<envVars, track_proc, util_proc, u_pixels, initVars, playVars>>

\* mutant: the track surface is not turned off after the boot animation
Validate_NoClear ==
  /\ pc = "validate"
  /\ IF DuplicateTrackIds(TRACKS)
        \/ DuplicateUtilIds(INIT_UTILS, TRIGGER_UTILS, RANDOM_UTILS)
     THEN Exit("exit1")
     ELSE /\ pc' = "boot_wait"
          /\ UNCHANGED status
  /\ UNCHANGED <<envVars, workerVars, repoVars, t_pixels, u_pixels, boot_anim_frame,
                 initVars, playVars>>

\* the duplicate-id checks, then the track surface is turned off
Validate ==
  /\ pc = "validate"
  /\ IF DuplicateTrackIds(TRACKS)
        \/ DuplicateUtilIds(INIT_UTILS, TRIGGER_UTILS, RANDOM_UTILS)
     THEN /\ Exit("exit1")
          /\ UNCHANGED t_pixels
     ELSE /\ t_pixels' = [buf |-> AllOff(TRACK_PIXEL_LENGTH),
                          shown |-> AllOff(TRACK_PIXEL_LENGTH)]
          /\ pc' = "boot_wait"
          /\ UNCHANGED status
  /\ UNCHANGED <<envVars, workerVars, repoVars, u_pixels, boot_anim_frame,
                 initVars, playVars>>

\* wait(1) ends and boot_startup_sequence returns 0
BootReturn ==
  /\ pc = "boot_wait"
  /\ pc' = "init"
  /\ boot_anim_frame' = 0    \* a local of boot_startup_sequence: gone on return
  /\ UNCHANGED <<envVars, status, workerVars, repoVars, t_pixels, u_pixels,
                 initVars, playVars>>

\* mutant: the init utility that was run is removed from INIT_UTILS
ExecuteInitUtil_Consume ==
  /\ pc = "init"
  /\ init_i <= Len(INIT_UTILS)
  /\ LET init_event == INIT_UTILS[init_i]
         r == run_util_by_id(INIT_UTILS, TRIGGER_UTILS, RANDOM_UTILS, u_pixels,
                             dummy, init_event.id)
     IN /\ u_pixels' = r.s
        /\ init_ran' = Append(init_ran, [entry |-> init_event, ran |-> r.ran,
                                         res |-> r.res])
  /\ INIT_UTILS' = Tail(INIT_UTILS)
  /\ UNCHANGED <<envVars, pc, status, workerVars, TRACKS, TRIGGER_UTILS, RANDOM_UTILS,
                 t_pixels, boot_anim_frame, init_i, playVars>>

\* one iteration of the loop of execute_init_utils
ExecuteInitUtil ==
  /\ pc = "init"
  /\ init_i <= Len(INIT_UTILS)
  /\ LET init_event == INIT_UTILS[init_i]
         r == run_util_by_id(INIT_UTILS, TRIGGER_UTILS, RANDOM_UTILS, u_pixels,
                             dummy, init_event.id)
     IN /\ u_pixels' = r.s
        /\ init_ran' = Append(init_ran, [entry |-> init_event, ran |-> r.ran,
                                         res |-> r.res])
  /\ init_i' = init_i + 1
  /\ UNCHANGED <<envVars, pc, status, workerVars, repoVars, t_pixels,
                 boot_anim_frame, playVars>>

\* mutant: main fills the whole utility surface with the status color
StatusGreen_Fill ==
  /\ pc = "init"
  /\ init_i > Len(INIT_UTILS)
  /\ u_pixels' =
       [buf |-> [i \in 0..(UTIL_PIXEL_LENGTH - 1) |->
                   Scaled(get_color("status_indicator_green"))],
        shown |-> [i \in 0..(UTIL_PIXEL_LENGTH - 1) |->
                     Scaled(get_color("status_indicator_green"))]]
  /\ pc' = "pick"
  /\ UNCHANGED <<envVars, status, workerVars, repoVars, t_pixels,
                 boot_anim_frame, initVars, playVars>>

\* execute_init_utils has returned: the green status light, then the main loop
StatusGreen ==
  /\ pc = "init"
  /\ init_i > Len(INIT_UTILS)
  /\ LET w == set_led(u_pixels, UTIL_PIXEL_LENGTH, dummy, "u", STATUS_UTIL_LED,
                      "status_indicator_green", TRUE)
     IN u_pixels' = w.s
  /\ pc' = "pick"
  /\ UNCHANGED <<envVars, status, workerVars, repoVars, t_pixels,
                 boot_anim_frame, initVars, playVars>>

\* ------------------------------------------------------------ track player
RECURSIVE Arm_ShowEach(_, _, _)
\* mutant: every arm write is shown at once
Arm_ShowEach(path, isDummy, acc) ==
  IF path = <<>> THEN acc
  ELSE LET track == StepPos(Head(path))
       IN IF track # PAUSE
          THEN LET w == set_led(acc.s, TRACK_PIXEL_LENGTH, isDummy, "t", track,
                                "white", TRUE)
               IN Arm_ShowEach(Tail(path), isDummy, [s |-> w.s, evs |-> acc.evs \o w.evs])
          ELSE Arm_ShowEach(Tail(path), isDummy, acc)

RECURSIVE Arm(_, _, _)
\* the "Enabling track" loop: every non-pause position is set to white without
\* show; acc = [s, evs]
Arm(path, isDummy, acc) ==
  IF path = <<>> THEN acc
  ELSE LET track == StepPos(Head(path))
       IN IF track # PAUSE
          THEN LET w == set_led(acc.s, TRACK_PIXEL_LENGTH, isDummy, "t", track,
                                "white", FALSE)
               IN Arm(Tail(path), isDummy, [s |-> w.s, evs |-> acc.evs \o w.evs])
          ELSE Arm(Tail(path), isDummy, acc)

\* the path the arm loop reads: track_config.get('track_path', [])
PathOrEmpty(track) == IF track.has_path THEN track.track_path ELSE <<>>

\* mutant: main has no "while True" and ends after the pass
EndPass_NoLoop ==
  /\ pc' = "exited"
  /\ passes' = passes + 1

\* the pass is over (the loop ran out, or an exception was caught): return 0,
\* and main's "while True" calls run_random_track again
EndPass ==
  /\ pc' = "pick"
  /\ passes' = passes + 1

\* run_random_track from the selection to the end of the arm phase
PickTrack ==
  /\ pc = "pick"
  /\ passes < MaxPasses
  /\ Len(TRACKS) > 0
  /\ \E k \in 1..Len(TRACKS) :
       LET chosen == TRACKS[k]
           a == Arm(PathOrEmpty(chosen), dummy, [s |-> t_pixels, evs |-> <<>>])
       IN /\ track_config' = chosen
          /\ t_pixels' = Show(a.s)
          /\ log' = a.evs \o <<EvShow("t")>>
          /\ step_i' = 1
          /\ util_i' = 1
          /\ IF ~chosen.has_path \/ chosen.track_path = <<>>
             THEN \* track_config['track_path'] raises KeyError, caught by the
                  \* generic handler; an empty path ends the loop at once
                  EndPass
             ELSE /\ pc' = "activate"
                  /\ UNCHANGED passes
  /\ UNCHANGED <<envVars, status, workerVars, repoVars, u_pixels,
                 boot_anim_frame, initVars>>

CurStep == track_config.track_path[step_i]

\* the current step makes its position active (a pause step writes nothing)
StepActivate ==
  /\ pc = "activate"
  /\ IF StepPos(CurStep) # PAUSE
     THEN LET w == set_led(t_pixels, TRACK_PIXEL_LENGTH, dummy, "t", StepPos(CurStep),
                           "red", TRUE)
          IN /\ t_pixels' = w.s
             /\ log' = log \o w.evs
     ELSE UNCHANGED <<t_pixels, log>>
  /\ util_i' = 1
  /\ pc' = "utils"
  /\ UNCHANGED <<envVars, status, workerVars, repoVars, u_pixels,
                 boot_anim_frame, initVars, track_config, step_i, passes>>

\* one utility bound to the current step is run
StepUtil ==
  /\ pc = "utils"
  /\ util_i <= Len(UtilsToRun(CurStep))
  /\ LET util_id == UtilsToRun(CurStep)[util_i]
         r == run_util_by_id(INIT_UTILS, TRIGGER_UTILS, RANDOM_UTILS, u_pixels,
                             dummy, util_id)
     IN /\ u_pixels' = r.s
        /\ log' = (log \o r.evs) \o <<EvUtil(util_id, r.res)>>
  /\ util_i' = util_i + 1
  /\ UNCHANGED <<envVars, pc, status, workerVars, repoVars, t_pixels,
                 boot_anim_frame, initVars, track_config, step_i, passes>>

\* the pacing wait of the current step: wait(10 * TRACK_SPEED_MODIFIER)
StepWait ==
  /\ pc = "utils"
  /\ util_i > Len(UtilsToRun(CurStep))
  /\ log' = Append(log, EvWait(PACE_BASE * TRACK_SPEED_MODIFIER))
  /\ pc' = "off"
  /\ UNCHANGED <<envVars, status, workerVars, repoVars, t_pixels, u_pixels,
                 boot_anim_frame, initVars, track_config, step_i, util_i, passes>>

\* mutant: the off write is made for the previous step's position, so the
\* last position of the path is never turned off by the traversal
StepOff_Previous ==
  /\ pc = "off"
  /\ IF step_i > 1 /\ StepPos(track_config.track_path[step_i - 1]) # PAUSE
     THEN LET w == set_led(t_pixels, TRACK_PIXEL_LENGTH, dummy, "t",
                           StepPos(track_config.track_path[step_i - 1]), "off", TRUE)
          IN /\ t_pixels' = w.s
             /\ log' = log \o w.evs
     ELSE UNCHANGED <<t_pixels, log>>
  /\ IF step_i = Len(track_config.track_path)
     THEN /\ EndPass
          /\ UNCHANGED step_i
     ELSE /\ step_i' = step_i + 1
          /\ pc' = "activate"
          /\ UNCHANGED passes
  /\ UNCHANGED <<envVars, status, workerVars, repoVars, u_pixels,
                 boot_anim_frame, initVars, track_config, util_i>>

\* mutant: the off write is not shown
StepOff_NoShow ==
  /\ pc = "off"
  /\ IF StepPos(CurStep) # PAUSE
     THEN LET w == set_led(t_pixels, TRACK_PIXEL_LENGTH, dummy, "t", StepPos(CurStep),
                           "off", FALSE)
          IN /\ t_pixels' = w.s
             /\ log' = log \o w.evs
     ELSE UNCHANGED <<t_pixels, log>>
  /\ IF step_i = Len(track_config.track_path)
     THEN /\ EndPass
          /\ UNCHANGED step_i
     ELSE /\ step_i' = step_i + 1
          /\ pc' = "activate"
          /\ UNCHANGED passes
  /\ UNCHANGED <<envVars, status, workerVars, repoVars, u_pixels,
                 boot_anim_frame, initVars, track_config, util_i>>

\* mutant: the off write is made for a pause step as well
StepOff_NoPauseCheck ==
  /\ pc = "off"
  /\ LET w == set_led(t_pixels, TRACK_PIXEL_LENGTH, dummy, "t", StepPos(CurStep),
                      "off", TRUE)
     IN /\ t_pixels' = w.s
        /\ log' = log \o w.evs
  /\ IF step_i = Len(track_config.track_path)
     THEN /\ EndPass
          /\ UNCHANGED step_i
     ELSE /\ step_i' = step_i + 1
          /\ pc' = "activate"
          /\ UNCHANGED passes
  /\ UNCHANGED <<envVars, status, workerVars, repoVars, u_pixels,
                 boot_anim_frame, initVars, track_config, util_i>>

\* mutant: only the position of the last step is turned off
StepOff_LastOnly ==
  /\ pc = "off"
  /\ IF StepPos(CurStep) # PAUSE /\ step_i = Len(track_config.track_path)
     THEN LET w == set_led(t_pixels, TRACK_PIXEL_LENGTH, dummy, "t", StepPos(CurStep),
                           "off", TRUE)
          IN /\ t_pixels' = w.s
             /\ log' = log \o w.evs
     ELSE UNCHANGED <<t_pixels, log>>
  /\ IF step_i = Len(track_config.track_path)
     THEN /\ EndPass
          /\ UNCHANGED step_i
     ELSE /\ step_i' = step_i + 1
          /\ pc' = "activate"
          /\ UNCHANGED passes
  /\ UNCHANGED <<envVars, status, workerVars, repoVars, u_pixels,
                 boot_anim_frame, initVars, track_config, util_i>>

\* after the wait the position of the step is turned off; then the next step
StepOff ==
  /\ pc = "off"
  /\ IF StepPos(CurStep) # PAUSE
     THEN LET w == set_led(t_pixels, TRACK_PIXEL_LENGTH, dummy, "t", StepPos(CurStep),
                           "off", TRUE)
          IN /\ t_pixels' = w.s
             /\ log' = log \o w.evs
     ELSE UNCHANGED <<t_pixels, log>>
  /\ IF step_i = Len(track_config.track_path)
     THEN /\ EndPass
          /\ UNCHANGED step_i
     ELSE /\ step_i' = step_i + 1
          /\ pc' = "activate"
          /\ UNCHANGED passes
  /\ UNCHANGED <<envVars, status, workerVars, repoVars, u_pixels,
                 boot_anim_frame, initVars, track_config, util_i>>

\* --------------------------------------------------------------- interrupt
\* mutant: the surfaces are filled with off but not shown
exit_gracefully_NoShow ==
  /\ t_pixels' = [t_pixels EXCEPT !.buf = AllOff(TRACK_PIXEL_LENGTH)]
  /\ u_pixels' = [u_pixels EXCEPT !.buf = AllOff(UTIL_PIXEL_LENGTH)]
  /\ Exit("exit0")

\* exit_gracefully(): both surfaces are filled with off and shown, sys.exit(0)
exit_gracefully ==
  /\ t_pixels' = [buf |-> AllOff(TRACK_PIXEL_LENGTH), shown |-> AllOff(TRACK_PIXEL_LENGTH)]
  /\ u_pixels' = [buf |-> AllOff(UTIL_PIXEL_LENGTH), shown |-> AllOff(UTIL_PIXEL_LENGTH)]
  /\ Exit("exit0")

\* mutant: the "except Exception" of run_util_by_id also receives the
\* interrupt, reports an error and lets the traversal go on
Interrupt_Swallowed ==
  /\ status = "running"
  /\ ~interrupted
  /\ interrupted' = TRUE
  /\ IF pc = "utils"
     THEN UNCHANGED <<pc, status, t_pixels, u_pixels>>
     ELSE exit_gracefully
  /\ UNCHANGED <<inputVars, cfgVars, ctlVars, workerVars, repoVars, boot_anim_frame,
                 initVars,
                 playVars>>

\* KeyboardInterrupt raised in the main process, at any position of main():
\* inside time.sleep it is caught by wait(), inside run_random_track by that
\* function's handler, elsewhere (boot, init utilities) by main's handler; the
\* "except Exception" clauses of set_t_led, set_u_led, run_util_by_id and wait
\* do not match it, nor the SystemExit raised by exit_gracefully
Interrupt ==
  /\ status = "running"
  /\ ~interrupted
  /\ interrupted' = TRUE
  /\ exit_gracefully
  /\ UNCHANGED <<inputVars, cfgVars, ctlVars, workerVars, repoVars, boot_anim_frame,
                 initVars,
                 playVars>>

\* ----------------------------------------------------------- specification
Next ==
  \/ MainStart
  \/ TrackWorker
  \/ UtilWorker
  \/ BootAnimFrame
  \/ JoinWorkers
  \/ Validate
  \/ BootReturn
  \/ ExecuteInitUtil
  \/ StatusGreen
  \/ PickTrack
  \/ StepActivate
  \/ StepUtil
  \/ StepWait
  \/ StepOff

Spec == Init /\ [][Next]_vars

\* the same program on the loader inputs and on the player inputs
SpecLoad == InitLoad /\ [][Next]_vars
SpecPlay == InitPlay /\ [][Next]_vars

\* the program from process start, on the configuration inputs
NextConfig == ModuleInit \/ Next
SpecConfig == InitConfig /\ [][NextConfig]_vars

\* the program on the queue inputs; a process that can take a step is
\* scheduled sooner or later
SpecQueue ==
  /\ InitQueue
  /\ [][Next]_vars
  /\ WF_vars(TrackWorker) /\ WF_vars(UtilWorker) /\ WF_vars(JoinWorkers)

\* the program with an interrupt that may arrive at any time
NextInt == Next \/ Interrupt
SpecInt == Init /\ [][NextInt]_vars

\* ------------------------------------------------------- numpad key logger
\* the bound on the key events of one device
MaxKeys == 2

\* NUMPAD_KEYS: the characters the key codes map to (one digit and one
\* special character stand for the others)
Digits == {"1"}
Specials == {"+"}
NUMPAD_KEYS == Digits \cup Specials \cup {"ENTER"}

\* the keys pressed on each device: digits and ENTER on the first, special
\* characters and ENTER on the second
DeviceKeys(d) == IF d = 1 THEN Digits \cup {"ENTER"} ELSE Specials \cup {"ENTER"}

mainVars ==
  <<inputVars, interrupted, cfgVars, pc, status, workerVars, repoVars, t_pixels,
    u_pixels, boot_anim_frame, initVars, playVars>>

\* the main program is not part of the key logger: it stays as it is
MainIdle ==
  /\ config = FullConfig
  /\ trackDir = <<>>
  /\ utilDir = <<>>
  /\ dummy = TRUE
  /\ hw = FALSE
  /\ pipe = 0
  /\ pc = "start"
  /\ Globals

\* the key logger after start_monitoring: one thread per device, each with
\* the key presses its device will deliver; a lock file and a cache text may
\* be left from before
InitCtl ==
  /\ MainIdle
  /\ ctl_pc = "monitoring"
  /\ running = TRUE
  /\ current_input = <<>>
  /\ lock = 0
  /\ lock_file \in BOOLEAN
  /\ cache_file \in {<<>>, <<"1">>}
  /\ threads \in {th \in [Devices -> {Thread("read", ev, 1, "", "") :
                                        ev \in SeqsUpTo(NUMPAD_KEYS, MaxKeys)}] :
                    \A d \in Devices : \A k \in 1..Len(th[d].events) :
                      th[d].events[k] \in DeviceKeys(d)}
  /\ handled = <<>>
  /\ lock_from_write = FALSE

\* the threads run until the interpreter exits
ThreadsRun == ctl_pc \in {"monitoring", "stopping"}

\* the threads between "with self.lock" and the end of handle_numpad_key
InHandler == {"handle", "check", "create", "write", "clear"}

\* text.strip() is empty
IsBlank(text) == \A k \in 1..Len(text) : text[k] = " "

\* monitor_device: the next key press of the device; the loop ends when
\* running is False
ReadEvent(d) ==
  /\ ThreadsRun
  /\ threads[d].pc = "read"
  /\ threads[d].i <= Len(threads[d].events)
  /\ LET th == threads[d]
     IN threads' = [threads EXCEPT ![d] =
                      IF ~running THEN Thread("done", th.events, th.i, th.key, th.res)
                      ELSE Thread("acquire", th.events, th.i + 1, th.events[th.i],
                                  th.res)]
  /\ UNCHANGED <<mainVars, ctl_pc, running, current_input, lock, lock_file,
                 cache_file, handled, lock_from_write>>

\* mutant: the handler is entered without taking the lock
Acquire_NoLock(d) ==
  /\ ThreadsRun
  /\ threads[d].pc = "acquire"
  /\ lock' = d
  /\ threads' = [threads EXCEPT ![d].pc = "handle"]
  /\ UNCHANGED <<mainVars, ctl_pc, running, current_input, lock_file, cache_file,
                 handled, lock_from_write>>

\* handle_numpad_key: "with self.lock" waits until the lock is free
Acquire(d) ==
  /\ ThreadsRun
  /\ threads[d].pc = "acquire"
  /\ lock = 0
  /\ lock' = d
  /\ threads' = [threads EXCEPT ![d].pc = "handle"]
  /\ UNCHANGED <<mainVars, ctl_pc, running, current_input, lock_file, cache_file,
                 handled, lock_from_write>>

\* handle_numpad_key: the branch on the key; ENTER with a non-empty input goes
\* on to write_to_cache, everything else ends the handler
HandleKey(d) ==
  /\ ThreadsRun
  /\ threads[d].pc = "handle"
  /\ LET key == threads[d].key
     IN IF key = "ENTER"
        THEN IF current_input # <<>>
             THEN /\ threads' = [threads EXCEPT ![d].pc = "check"]
                  /\ UNCHANGED <<current_input, lock, handled>>
             ELSE /\ threads' = [threads EXCEPT ![d].pc = "read"]
                  /\ handled' = Append(handled, <<d, key>>)
                  /\ lock' = 0
                  /\ UNCHANGED current_input
        ELSE IF key \in Digits
        THEN /\ current_input' = Append(current_input, key)
             /\ threads' = [threads EXCEPT ![d].pc = "read"]
             /\ handled' = Append(handled, <<d, key>>)
             /\ lock' = 0
        ELSE /\ current_input' = Append(current_input, key)
             /\ threads' = [threads EXCEPT ![d].pc = "read"]
             /\ handled' = Append(handled, <<d, key>>)
             /\ lock' = 0
  /\ UNCHANGED <<mainVars, ctl_pc, running, lock_file, cache_file, lock_from_write>>

\* write_to_cache up to create_lock_file: a blank input is not written, and
\* nothing is written while the lock file exists
CheckLockFile(d) ==
  /\ ThreadsRun
  /\ threads[d].pc = "check"
  /\ threads' = [threads EXCEPT ![d] =
                   IF IsBlank(current_input) THEN [@ EXCEPT !.pc = "clear", !.res = "true"]
                   ELSE IF lock_file THEN [@ EXCEPT !.pc = "clear", !.res = "false"]
                   ELSE [@ EXCEPT !.pc = "create"]]
  /\ UNCHANGED <<mainVars, ctl_pc, running, current_input, lock, lock_file,
                 cache_file, handled, lock_from_write>>

\* create_lock_file: False when the file exists or cannot be created
CreateLockFile(d) ==
  /\ ThreadsRun
  /\ threads[d].pc = "create"
  /\ \E ok \in BOOLEAN :
       IF lock_file \/ ~ok
       THEN /\ threads' = [threads EXCEPT ![d].pc = "clear", ![d].res = "false"]
            /\ UNCHANGED lock_file
       ELSE /\ lock_file' = TRUE
            /\ threads' = [threads EXCEPT ![d].pc = "write"]
  /\ UNCHANGED <<mainVars, ctl_pc, running, current_input, lock, cache_file,
                 handled, lock_from_write>>

\* write_to_cache: the cache file is opened for writing and the input written;
\* when that raises (before or after the file was truncated) the lock file is
\* removed
WriteCache(d) ==
  /\ ThreadsRun
  /\ threads[d].pc = "write"
  /\ \E ok \in BOOLEAN :
       IF ok
       THEN /\ cache_file' = current_input
            /\ lock_from_write' = lock_file
            /\ threads' = [threads EXCEPT ![d].pc = "clear", ![d].res = "true"]
            /\ UNCHANGED lock_file
       ELSE /\ cache_file' \in {cache_file, <<>>}
            /\ lock_file' = FALSE
            /\ lock_from_write' = FALSE
            /\ threads' = [threads EXCEPT ![d].pc = "clear", ![d].res = "false"]
  /\ UNCHANGED <<mainVars, ctl_pc, running, current_input, lock, handled>>

\* mutant: the input is kept when the cache write did not succeed
ClearInput_KeepOnFailure(d) ==
  /\ ThreadsRun
  /\ threads[d].pc = "clear"
  /\ current_input' = IF threads[d].res = "true" THEN <<>> ELSE current_input
  /\ handled' = IF threads[d].res = "true" THEN Append(handled, <<d, threads[d].key>>)
                ELSE handled
  /\ lock' = 0
  /\ threads' = [threads EXCEPT ![d].pc = "read"]
  /\ UNCHANGED <<mainVars, ctl_pc, running, lock_file, cache_file, lock_from_write>>

\* handle_numpad_key after write_to_cache: the input is emptied whatever the
\* write returned, and the lock is released
ClearInput(d) ==
  /\ ThreadsRun
  /\ threads[d].pc = "clear"
  /\ current_input' = <<>>
  /\ handled' = Append(handled, <<d, threads[d].key>>)
  /\ lock' = 0
  /\ threads' = [threads EXCEPT ![d].pc = "read"]
  /\ UNCHANGED <<mainVars, ctl_pc, running, lock_file, cache_file, lock_from_write>>

\* remove_lock_file
remove_lock_file ==
  /\ lock_file' = FALSE
  /\ lock_from_write' = FALSE

\* signal_handler: stop_monitoring (running False, the lock file removed),
\* then sys.exit(0) is raised in the main thread
StopMonitoring ==
  /\ ctl_pc = "monitoring"
  /\ running' = FALSE
  /\ remove_lock_file
  /\ ctl_pc' = "stopping"
  /\ UNCHANGED <<mainVars, current_input, lock, cache_file, threads, handled>>

\* main: the SystemExit passes the "finally" clause, which calls
\* stop_monitoring once more; the daemon threads end with the interpreter
ProcessExit ==
  /\ ctl_pc = "stopping"
  /\ remove_lock_file
  /\ ctl_pc' = "exited"
  /\ UNCHANGED <<mainVars, running, current_input, lock, cache_file, threads, handled>>

\* the separate program that processes the cache removes the lock file
ConsumerRemovesLock ==
  /\ ctl_pc # "idle"
  /\ lock_file
  /\ remove_lock_file
  /\ UNCHANGED <<mainVars, ctl_pc, running, current_input, lock, cache_file,
                 threads, handled>>

NextCtl ==
  \/ \E d \in Devices : ReadEvent(d)
  \/ \E d \in Devices : Acquire(d)
  \/ \E d \in Devices : HandleKey(d)
  \/ \E d \in Devices : CheckLockFile(d)
  \/ \E d \in Devices : CreateLockFile(d)
  \/ \E d \in Devices : WriteCache(d)
  \/ \E d \in Devices : ClearInput(d)
  \/ StopMonitoring
  \/ ProcessExit
  \/ ConsumerRemovesLock

SpecCtl == InitCtl /\ [][NextCtl]_vars

\* ------------------------------------------------------------- properties
\* two records of the list carry the same id
SharedId(recs) ==
  \E i, j \in 1..Len(recs) : i < j /\ recs[i].id # Absent /\ recs[i].id = recs[j].id

AllUtils == (INIT_UTILS \o TRIGGER_UTILS) \o RANDOM_UTILS

\* the scheduler loop has been entered / a track has been selected
InScheduler == pc \in {"pick", "activate", "utils", "off"}
TrackSelected == passes > 0 \/ pc \in {"activate", "utils", "off"}

\* C1: when two loaded Track records share an id, or two Utility records of
\* init+trigger+random share an id, the process is at the validation or has
\* exited with a non-zero status; no init utility has run and no track has
\* been selected.
C1_DuplicateIdsAbortBoot ==
  (SharedId(TRACKS) \/ SharedId(AllUtils)) =>
    /\ pc \in {"validate", "exited"}
    /\ pc = "exited" => status = "exit1"
    /\ init_ran = <<>>
    /\ ~TrackSelected

C1_Witness ==
  /\ pc = "exited" /\ status = "exit1"
  /\ SharedId(INIT_UTILS) /\ ~SharedId(TRACKS)

\* the boot phase of a control position
Phase ==
  CASE pc \in {"start", "loading"} -> "Loading"
    [] pc \in {"validate", "boot_wait"} -> "Validating"
    [] pc = "init" -> "InitRunning"
    [] InScheduler -> "Ready"
    [] OTHER -> "Stopped"

\* a listing whose load yields no record
EmptyLoad(files) == ~LoadRaises(files) /\ ParsedDocs(files) = <<>>

\* the fatal boot errors of the documents: a load that raises, an empty Track
\* repository, duplicate ids (the empty Utility repository is settled by C4
\* and left out: the formula fails without it)
FatalBootError ==
  \/ LoadRaises(trackDir) \/ LoadRaises(utilDir)
  \/ EmptyLoad(trackDir)
  \/ SharedId(TRACKS) \/ SharedId(AllUtils)

\* C2: the scheduler (phase Ready) is reached only with both workers exited
\* with status 0, no duplicate ids and every init utility completed, and
\* never after a fatal boot error.
C2_BootPhases ==
  /\ Phase = "Ready" =>
       /\ track_proc = [st |-> "exited", exitcode |-> 0]
       /\ util_proc = [st |-> "exited", exitcode |-> 0]
       /\ ~SharedId(TRACKS) /\ ~SharedId(AllUtils)
       /\ Len(init_ran) = Len(INIT_UTILS)
  /\ FatalBootError => Phase # "Ready"

\* the phases follow one another in the order Loading, Validating,
\* InitRunning, Ready, or the process stops
PhaseOrder ==
  [][Phase' # Phase =>
       <<Phase, Phase'>> \in
         { <<"Loading", "Validating">>, <<"Validating", "InitRunning">>,
           <<"InitRunning", "Ready">>, <<"Loading", "Stopped">>,
           <<"Validating", "Stopped">> }]_vars

\* C3: a load that raises makes its worker exit with a non-zero status, and
\* the orchestrator then terminates instead of going on to the validation.
C3_LoadExceptionIsFatal ==
  /\ (LoadRaises(trackDir) /\ track_proc.st = "exited") => track_proc.exitcode # 0
  /\ (LoadRaises(utilDir) /\ util_proc.st = "exited") => util_proc.exitcode # 0
  /\ (LoadRaises(trackDir) \/ LoadRaises(utilDir)) =>
       /\ pc \in {"start", "loading", "exited"}
       /\ pc = "exited" => status = "exit1"

LoadedSets ==
  IF util_queue # <<>> THEN Head(util_queue)
  ELSE Sets(INIT_UTILS, TRIGGER_UTILS, RANDOM_UTILS)

\* occurrences of a record in a list
Count(u, recs) == Cardinality({k \in 1..Len(recs) : recs[k] = u})
Range(recs) == {recs[k] : k \in 1..Len(recs)}

UtilsLoaded == util_proc.st = "exited" /\ ~LoadRaises(utilDir)

\* C5: after a utility load, every loaded record is in exactly one of init,
\* trigger, random: the sets are pairwise disjoint, their union is the loaded
\* collection, and no record is dropped or repeated.
C5_PartitionOfLoadedUtils ==
  UtilsLoaded =>
    LET all == ParsedDocs(utilDir)
        S == LoadedSets
    IN /\ Range(S.init) \cap Range(S.trigger) = {}
       /\ Range(S.init) \cap Range(S.random) = {}
       /\ Range(S.trigger) \cap Range(S.random) = {}
       /\ Range(S.init) \cup Range(S.trigger) \cup Range(S.random) = Range(all)
       /\ \A u \in Range(all) :
            Count(u, S.init) + Count(u, S.trigger) + Count(u, S.random) = Count(u, all)

C5_Witness ==
  /\ UtilsLoaded
  /\ Len(ParsedDocs(utilDir)) = 2
  /\ \E u \in Range(LoadedSets.init) : u.is_random = "true"
  /\ \E u \in Range(LoadedSets.trigger) : u.is_random = Absent /\ u.enabled_on_init = Absent

C7_InitUtilsRunOnceEach ==
  /\ pc = "init" => ~TrackSelected
  /\ \A k \in 1..Len(init_ran) :
       /\ k <= Len(INIT_UTILS)
       /\ init_ran[k].entry = INIT_UTILS[k]
       /\ init_ran[k].ran = <<INIT_UTILS[k]>>
  /\ InScheduler => Len(init_ran) = Len(INIT_UTILS)

\* ---------------------------------------------------- track player claims
\* a pass over the selected track's path has run to its end
PassComplete == pc = "pick" /\ passes > 0 /\ track_config.has_path
Path == track_config.track_path

\* what the log says of the traversal: the 'position active' and 'position
\* off' writes of the track surface, the utility invocations and the waits
IsActive(e) == e.op = "set" /\ e.surf = "t" /\ e.color = "red"
IsOff(e) == e.op = "set" /\ e.surf = "t" /\ e.color = "off"
IsWait(e) == e.op = "wait"
IsUtil(e) == e.op = "util"
Mark(e) ==
  IF IsActive(e) THEN <<"active", "", e.led>>
  ELSE IF IsOff(e) THEN <<"off", "", e.led>>
  ELSE IF IsUtil(e) THEN <<"util", e.color, 0>>
  ELSE <<"wait", "", 0>>
Marks(events, Keep(_)) ==
  LET kept == SelectSeq(events, Keep)
  IN [k \in 1..Len(kept) |-> Mark(kept[k])]
NumOf(events, Keep(_)) == Len(SelectSeq(events, Keep))

\* the ids a step declares, in declared order (empty and null entries aside)
DeclaredIds(step) ==
  IF step.ukind = "list" THEN SelectSeq(step.uids, LAMBDA id : id # "")
  ELSE IF step.ukind = "str" /\ step.uids[1] # "" THEN step.uids
  ELSE <<>>

\* n distinct non-pause positions, no bound utilities
PlainPath(path) ==
  /\ \A k \in 1..Len(path) : path[k].pos # PAUSE /\ DeclaredIds(path[k]) = <<>>
  /\ \A i, j \in 1..Len(path) : i # j => path[i].pos # path[j].pos

RECURSIVE Concat(_)
Concat(seqs) == IF seqs = <<>> THEN <<>> ELSE Head(seqs) \o Concat(Tail(seqs))

\* C8 as stated: a full pass over n distinct non-pause positions without
\* utilities makes n 'position active' writes and n-1 'previous position off'
\* writes, each off write coming after the active write of the next position.
C8_ActiveAndPreviousOffWrites ==
  (PassComplete /\ PlainPath(Path)) =>
    /\ NumOf(log, IsActive) = Len(Path)
    /\ NumOf(log, IsOff) = Len(Path) - 1
    /\ Marks(log, LAMBDA e : IsActive(e) \/ IsOff(e) \/ IsWait(e)) =
         Concat([k \in 1..Len(Path) |->
                   <<<<"active", "", Path[k].pos>>>>
                   \o (IF k > 1 THEN <<<<"off", "", Path[k - 1].pos>>>> ELSE <<>>)
                   \o <<<<"wait", "", 0>>>>])

\* C8 (amended): such a pass makes n 'position active' writes and n 'position
\* off' writes; each step writes its position active, waits, and then writes
\* that same position off, before the next step's active write.
C8_ActiveWaitOffPerStep ==
  (PassComplete /\ PlainPath(Path)) =>
    /\ NumOf(log, IsActive) = Len(Path)
    /\ NumOf(log, IsOff) = Len(Path)
    /\ Marks(log, LAMBDA e : IsActive(e) \/ IsOff(e) \/ IsWait(e)) =
         Concat([k \in 1..Len(Path) |->
                   << <<"active", "", Path[k].pos>>, <<"wait", "", 0>>,
                      <<"off", "", Path[k].pos>> >>])

C8_Witness ==
  /\ PassComplete /\ PlainPath(Path) /\ Len(Path) = MaxPathLen
  /\ NumOf(log, IsOff) = MaxPathLen

\* the traversal a path prescribes: per step, in path order, the active write
\* (unless the step pauses), the declared utilities in declared order, the wait
Prescribed(path) ==
  Concat([k \in 1..Len(path) |->
            (IF path[k].pos # PAUSE THEN <<<<"active", "", path[k].pos>>>> ELSE <<>>)
            \o [j \in 1..Len(DeclaredIds(path[k])) |->
                  <<"util", DeclaredIds(path[k])[j], 0>>]
            \o <<<<"wait", "", 0>>>>])

IsPrefix(a, b) == Len(a) <= Len(b) /\ \A k \in 1..Len(a) : a[k] = b[k]

\* C9: during a pass the steps run in path order, the utilities of a step in
\* declared order, each utility run complete (its surface writes made and its
\* result returned) before the next begins, and all before the step's wait.
C9_StepsAndUtilitiesInOrder ==
  (pc \in {"activate", "utils", "off"} \/ PassComplete) =>
    LET seen == Marks(log, LAMBDA e : IsActive(e) \/ IsUtil(e) \/ IsWait(e))
    IN /\ IsPrefix(seen, Prescribed(Path))
       /\ PassComplete => seen = Prescribed(Path)
       /\ \A k \in 1..Len(log) :
            log[k].surf = "u" =>
              /\ k < Len(log)
              /\ log[k + 1].surf = "u" \/ IsUtil(log[k + 1])

C9_Witness ==
  /\ PassComplete
  /\ Len(Path) = 2
  /\ DeclaredIds(Path[1]) = <<"a", "b">>
  /\ NumOf(log, IsUtil) = 2
  /\ NumOf(log, LAMBDA e : e.surf = "u" /\ e.op = "set") = 2

\* no loaded utility carries the id
MissingId(id) == \A u \in Range(AllUtils) : u.id # id

\* C10: a bound id that no utility carries gives the error value 1 and no
\* write to the utility surface; a bound id that exists is run (0, or 2 for a
\* utility without actions); the pass then goes on: every declared utility
\* of every step is invoked and every step has its pacing wait.
C10_MissingUtilityIsNotFatal ==
  (pc \in {"activate", "utils", "off"} \/ PassComplete) =>
    /\ \A k \in 1..Len(log) :
         IsUtil(log[k]) =>
           IF MissingId(log[k].color)
           THEN log[k].res = 1 /\ (k = 1 \/ log[k - 1].surf # "u")
           ELSE log[k].res \in {0, 2}
    /\ PassComplete =>
         /\ NumOf(log, IsWait) = Len(Path)
         /\ Marks(log, IsUtil) =
              Concat([k \in 1..Len(Path) |->
                        [j \in 1..Len(DeclaredIds(Path[k])) |->
                           <<"util", DeclaredIds(Path[k])[j], 0>>]])

C10_Witness ==
  /\ PassComplete
  /\ Len(Path) = 2
  /\ DeclaredIds(Path[1]) = <<"zz", "a">>
  /\ \E k \in 1..Len(log) : IsUtil(log[k]) /\ log[k].color = "zz" /\ log[k].res = 1
  /\ \E k \in 1..Len(log) : IsUtil(log[k]) /\ log[k].color = "a" /\ log[k].res = 0
  /\ NumOf(log, IsWait) = 2

\* C11: once an interrupt has been raised in the main control flow (during
\* boot, the init utilities or a track pass, at a wait or between waits) the
\* process has exited with status 0 and both surfaces are all-off and shown;
\* after it no track step and no utility action is performed, and no generic
\* error handler lets the program go on.
C11_InterruptShutsDown ==
  /\ [](interrupted =>
         /\ pc = "exited" /\ status = "exit0"
         /\ t_pixels.buf = AllOff(TRACK_PIXEL_LENGTH)
         /\ t_pixels.shown = AllOff(TRACK_PIXEL_LENGTH)
         /\ u_pixels.buf = AllOff(UTIL_PIXEL_LENGTH)
         /\ u_pixels.shown = AllOff(UTIL_PIXEL_LENGTH))
  /\ [][interrupted =>
          UNCHANGED <<pc, status, t_pixels, u_pixels, repoVars, initVars, playVars>>]_vars

\* an interrupt arrived while a position of the path was active and a bound
\* utility had been run
C11_Witness ==
  /\ interrupted /\ status = "exit0"
  /\ NumOf(log, IsActive) > NumOf(log, IsOff)
  /\ NumOf(log, IsUtil) > 0

\* events on the utility surface
IsUSet(e) == e.op = "set" /\ e.surf = "u"
IsUShow(e) == e.op = "show" /\ e.surf = "u"

\* a utility made of one blinking entry
BlinkOnly(u) == Len(u.utils) = 1 /\ u.utils[1].blink

\* C12: when the only utility bound to a one-step path is one blinking entry
\* with repeat r, the completed pass holds 2r writes to the utility surface
\* (r on, r off), 2r shows of it, and 2r waits beside the step's pacing wait.
C12_BlinkWritesShowsWaits ==
  \A k \in 1..Len(AllUtils) :
    (/\ PassComplete
     /\ BlinkOnly(AllUtils[k])
     /\ Len(Path) = 1
     /\ UtilsToRun(Path[1]) = <<AllUtils[k].id>>)
    => /\ NumOf(log, IsUSet) = 2 * AllUtils[k].utils[1].repeat
       /\ NumOf(log, IsUShow) = 2 * AllUtils[k].utils[1].repeat
       /\ NumOf(log, IsWait) = 2 * AllUtils[k].utils[1].repeat + 1

\* the events of the utility invocation whose return is log[k]: the run of
\* utility-surface events that ends just before it
UtilEvents(k) ==
  LET j == CHOOSE j \in 1..k :
             /\ \A i \in j..(k - 1) : log[i].surf = "u"
             /\ (j = 1 \/ log[j - 1].surf # "u")
  IN SubSeq(log, j, k - 1)

\* set_u_led returned 0
IsApplied(e) == IsUSet(e) /\ e.res = 0

\* the entries of a utility that carry both 'led' and 'color'
Writable(items) == SelectSeq(items, LAMBDA item : item.has_led /\ item.color # Absent)

\* a utility without blinking entries that was found by its id
Static(id) ==
  LET found == get_util_from_id(INIT_UTILS, TRIGGER_UTILS, RANDOM_UTILS, id)
  IN found # <<>> /\ \A i \in 1..Len(found[1].utils) : ~found[1].utils[i].blink

\* C13: an invocation of a utility made of static entries writes each entry
\* that names an LED and a color, in order, without a show in between; the
\* utility surface is shown exactly once, after the last write, when at least
\* one write was applied, and not at all when none was.
C13_StaticUtilityShowsOnce ==
  \A k \in 1..Len(log) :
    (IsUtil(log[k]) /\ Static(log[k].color)) =>
      LET seg == UtilEvents(k)
          items == Writable(get_util_from_id(INIT_UTILS, TRIGGER_UTILS, RANDOM_UTILS,
                                             log[k].color)[1].utils)
          sets == SelectSeq(seg, IsUSet)
      IN /\ Len(sets) = Len(items)
         /\ \A i \in 1..Len(sets) :
              sets[i].led = items[i].led /\ sets[i].color = items[i].color
         /\ NumOf(seg, IsUShow) = (IF NumOf(seg, IsApplied) > 0 THEN 1 ELSE 0)
         /\ \A i \in 1..Len(seg) : IsUShow(seg[i]) => i = Len(seg)
         /\ u_pixels.shown = u_pixels.buf

\* a pass on the NeoPixel surface ran "b" (one entry written, one skipped: one
\* show) and "f" (no write applied: no show)
C13_Witness ==
  /\ PassComplete /\ ~dummy
  /\ \E k \in 1..Len(log) :
       /\ log[k] = EvUtil("b", 0)
       /\ NumOf(UtilEvents(k), IsUShow) = 1 /\ NumOf(UtilEvents(k), IsUSet) = 1
  /\ \E k \in 1..Len(log) :
       /\ log[k] = EvUtil("f", 0)
       /\ NumOf(UtilEvents(k), IsUShow) = 0 /\ NumOf(UtilEvents(k), IsUSet) = 1

\* C14: run_util_by_id returns 0 only if at least one LED write was applied,
\* and returns 1 or 2 whenever none was, also when the utility has entries
\* that were all skipped or all failed.
C14_ReturnValueTellsWhetherApplied ==
  \A k \in 1..Len(log) :
    IsUtil(log[k]) =>
      /\ log[k].res \in {0, 1, 2}
      /\ (log[k].res = 0) <=> (NumOf(UtilEvents(k), IsApplied) > 0)

\* the non-pause positions a path names, in path order
ArmPositions(path) == SelectSeq(get_track_path(path), LAMBDA p : p # PAUSE)

\* C15: the log of a pass begins with one white write per non-pause position
\* of the path, in path order and with no show between them, followed by one
\* show of the track surface; nothing is armed later, and every active write
\* comes after that show.
C15_ArmThenOneShow ==
  (TrackSelected /\ track_config.has_path) =>
    LET pos == ArmPositions(Path)
        n == Len(pos)
    IN /\ Len(log) > n
       /\ \A i \in 1..n :
            /\ log[i].op = "set" /\ log[i].surf = "t"
            /\ log[i].led = pos[i] /\ log[i].color = "white"
       /\ log[n + 1] = EvShow("t")
       /\ \A i \in (n + 2)..Len(log) : ~(log[i].surf = "t" /\ log[i].color = "white")
       /\ \A i \in 1..Len(log) : IsActive(log[i]) => i > n + 1

\* a completed pass over a path of one pause and one non-pause position
C15_Witness ==
  /\ PassComplete
  /\ Len(Path) = 2 /\ Len(ArmPositions(Path)) = 1
  /\ NumOf(log, IsActive) = 1

\* the traversal is at a step whose position is the pause sentinel
AtPauseStep == pc \in {"activate", "utils", "off"} /\ StepPos(CurStep) = PAUSE

\* C16: while the traversal is at a pause step the track surface does not
\* change, and no write of any color is ever made for the position -1 (it is
\* not armed, not made active, not turned off); when the step's off point is
\* reached its bound utilities have been invoked in order and the pacing wait
\* was the last thing done.
C16_PauseStepLeavesTrackSurface ==
  /\ [][AtPauseStep => t_pixels' = t_pixels]_vars
  /\ [](\A i \in 1..Len(log) : ~(log[i].surf = "t" /\ log[i].led = PAUSE /\ log[i].op = "set"))
  /\ []((AtPauseStep /\ pc = "off") =>
          LET ids == UtilsToRun(CurStep)
              m == SelectSeq(log, IsUtil)
          IN /\ IsWait(log[Len(log)])
             /\ NumOf(log, IsWait) = step_i
             /\ Len(m) >= Len(ids)
             /\ \A i \in 1..Len(ids) : m[Len(m) - Len(ids) + i].color = ids[i])

\* a pause step with a bound utility has run it and waited
C16_Witness ==
  /\ AtPauseStep /\ pc = "off"
  /\ UtilsToRun(CurStep) = <<"a">>
  /\ \E i \in 1..Len(log) : log[i] = EvUtil("a", 0)

\* C17: whenever the scheduler is about to select a track (before the first
\* pass and after every completed pass) every LED of the track surface is off,
\* in the buffer and on the strip as last shown.
C17_TrackSurfaceOffBetweenPasses ==
  pc = "pick" =>
    /\ t_pixels.buf = AllOff(TRACK_PIXEL_LENGTH)
    /\ t_pixels.shown = AllOff(TRACK_PIXEL_LENGTH)

\* a completed pass over a path that names the same position twice
C17_Witness ==
  /\ PassComplete
  /\ Len(Path) = 2
  /\ StepPos(Path[1]) = StepPos(Path[2])
  /\ StepPos(Path[1]) \in 0..(TRACK_PIXEL_LENGTH - 1)
  /\ NumOf(log, IsOff) = 2

\* C18: when a pass has ended and the scheduler is about to arm the next one,
\* the last thing done was a wait made after the last step, beside the one
\* pacing wait of each step.
C18_WaitBetweenPasses ==
  PassComplete =>
    /\ IsWait(log[Len(log)])
    /\ NumOf(log, IsWait) = Len(Path) + 1

\* C19: every pacing wait of a pass lasts the selected track's speed
\* multiplied by the global speed modifier.
C19_PacingWaitIsSpeedTimesModifier ==
  (TrackSelected /\ track_config.has_path) =>
    \A i \in 1..Len(log) :
      IsWait(log[i]) => log[i].led = track_config.speed * TRACK_SPEED_MODIFIER

\* the scheduler loop is about to begin
AtReady == pc = "pick" /\ passes = 0

\* some init utility that was run names this LED with a color other than off
WrittenByInit(led) ==
  \E i \in 1..Len(init_ran) :
    /\ init_ran[i].ran # <<>>
    /\ \E j \in 1..Len(init_ran[i].ran[1].utils) :
         LET item == init_ran[i].ran[1].utils[j]
         IN item.has_led /\ item.led = led /\ item.color \notin {Absent, "off"}

\* C20 as stated: when the scheduler loop begins both surfaces are all-off.
C20_BothSurfacesOffAtReady ==
  AtReady =>
    /\ t_pixels.buf = AllOff(TRACK_PIXEL_LENGTH)
    /\ t_pixels.shown = AllOff(TRACK_PIXEL_LENGTH)
    /\ u_pixels.buf = AllOff(UTIL_PIXEL_LENGTH)
    /\ u_pixels.shown = AllOff(UTIL_PIXEL_LENGTH)

\* C20 (amended): when the scheduler loop begins the track surface is all-off
\* and shown so; the utility surface is not cleared: it shows the green status
\* LED and, lit, exactly the other LEDs that the init utilities wrote.
C20_TrackSurfaceOffUtilitySurfaceKept ==
  AtReady =>
    /\ t_pixels.buf = AllOff(TRACK_PIXEL_LENGTH)
    /\ t_pixels.shown = AllOff(TRACK_PIXEL_LENGTH)
    /\ u_pixels.shown = u_pixels.buf
    /\ u_pixels.buf[STATUS_UTIL_LED] = Scaled(get_color("status_indicator_green"))
    /\ \A led \in 0..(UTIL_PIXEL_LENGTH - 1) :
         led # STATUS_UTIL_LED => ((u_pixels.buf[led] # OFF) <=> WrittenByInit(led))

\* the scheduler loop begins after an init utility has lit LED 1
C20_Witness ==
  /\ AtReady
  /\ init_ran # <<>>
  /\ u_pixels.shown[1] # OFF

\* the step is made by run_util_by_id (an init utility or a bound utility)
ByUtilityRunner == (pc = "init" /\ pc' = "init") \/ pc = "utils"

\* the step is made by main itself, outside boot, init utilities and passes
ByMain == pc = "start" \/ (pc = "init" /\ pc' = "pick")

\* the step is made by boot_startup_sequence or by run_random_track
ByBootOrPlayer == pc \in {"loading", "validate", "pick", "activate", "off"}

\* at most the status LED differs between the two surface states
OnlyStatusLed(s1, s2) ==
  \A led \in 0..(UTIL_PIXEL_LENGTH - 1) :
    led # STATUS_UTIL_LED => (s1.buf[led] = s2.buf[led] /\ s1.shown[led] = s2.shown[led])

\* C21 as stated: the utility surface changes only in steps of the Utility
\* Runner, the track surface only in steps of the Boot Orchestrator and the
\* Track Player.
C21_SurfacesWrittenOnlyByOwners ==
  [][/\ (u_pixels' # u_pixels => ByUtilityRunner)
     /\ (t_pixels' # t_pixels => ByBootOrPlayer)]_vars

\* C21 (amended): the track surface changes only in steps of the Boot
\* Orchestrator and the Track Player; the utility surface changes only in
\* steps of the Utility Runner and in the two steps of main that set the
\* status LED, which change no other LED of it.
C21_MainWritesOnlyStatusLed ==
  [][/\ (u_pixels' # u_pixels => (ByUtilityRunner \/ ByMain))
     /\ ((u_pixels' # u_pixels /\ ByMain) => OnlyStatusLed(u_pixels, u_pixels'))
     /\ (t_pixels' # t_pixels => ByBootOrPlayer)]_vars

\* main has set the green status LED beside an LED lit by an init utility,
\* and a pass has written both surfaces
C21_Witness ==
  /\ PassComplete
  /\ u_pixels.shown[STATUS_UTIL_LED] = Scaled(get_color("status_indicator_green"))
  /\ init_ran # <<>> /\ u_pixels.shown[1] # OFF
  /\ NumOf(log, IsActive) > 0 /\ NumOf(log, IsUtil) > 0

\* both workers have exited with status 0
BothLoadsOk ==
  /\ track_proc.st = "exited" /\ track_proc.exitcode = 0
  /\ util_proc.st = "exited" /\ util_proc.exitcode = 0

\* the orchestrator has passed its two Queue.get() calls
QueuesRead == BothLoadsOk /\ pc \notin {"start", "loading"}

\* a worker that exited with status 0 has put exactly one item, the
\* orchestrator never waits on an empty queue, and an item leaves a queue only
\* in the orchestrator's step after both exit statuses were found 0, one item
\* from each queue
OnePutOneGet ==
  /\ []((track_proc.st = "exited" /\ track_proc.exitcode = 0) =>
          Len(track_queue) + (IF QueuesRead THEN 1 ELSE 0) = 1)
  /\ []((util_proc.st = "exited" /\ util_proc.exitcode = 0) =>
          Len(util_queue) + (IF QueuesRead THEN 1 ELSE 0) = 1)
  /\ [](pc # "blocked")
  /\ [][(Len(track_queue') < Len(track_queue) \/ Len(util_queue') < Len(util_queue)) =>
          /\ pc = "loading" /\ BothLoadsOk
          /\ Len(track_queue') = Len(track_queue) - 1
          /\ Len(util_queue') = Len(util_queue) - 1]_vars

\* C22 as stated: one put per worker that exits with 0, one get per queue after
\* the exit status checks, no read of an empty queue, and no item is ever left
\* unread: when the process has exited both queues are empty.
C22_OnePutOneGetNothingUnread ==
  /\ OnePutOneGet
  /\ [](pc = "exited" => (track_queue = <<>> /\ util_queue = <<>>))

\* C22 (amended): one put per worker that exits with 0; when both exit
\* statuses are 0 the orchestrator takes one item from each queue and both
\* queues are empty from then on; when a worker failed it takes none, and
\* only then does the process exit with an item unread.
C22_OnePutOneGetWhenBothLoadsOk ==
  /\ OnePutOneGet
  /\ [](QueuesRead => (track_queue = <<>> /\ util_queue = <<>>))
  /\ []((pc = "exited" /\ (track_queue # <<>> \/ util_queue # <<>>)) =>
          (status = "exit1" /\ ~BothLoadsOk))

\* both loads succeeded and both items were taken
C22_Witness ==
  /\ QueuesRead /\ pc = "validate"
  /\ Len(TRACKS) = 2 /\ Len(INIT_UTILS) > 0
  /\ track_queue = <<>> /\ util_queue = <<>>

\* the events a step appends to the log
NewEvents == SubSeq(log', Len(log) + 1, Len(log'))

\* every write to the surface among the events returned the error value
AllFailed(events, surf) ==
  \A i \in 1..Len(events) :
    (events[i].op = "set" /\ events[i].surf = surf) => events[i].res = 1

\* the last write to a utility LED that the log holds is the last event of
\* the log that names it
LastWriteTo(led, i) ==
  /\ IsApplied(log[i]) /\ log[i].led = led
  /\ \A j \in (i + 1)..Len(log) : ~(IsApplied(log[j]) /\ log[j].led = led)

\* C23: a write with a color name that is not in the table leaves the LED
\* off; a step whose writes to a surface all returned the error value leaves
\* that surface's buffer unchanged; and whatever failed, a completed pass has
\* made the active write, the utility invocations and the wait of every step
\* of the path.
C23_UnknownColorAndFailedWrite ==
  /\ [](\A i \in 1..Len(log) : \A led \in 0..(UTIL_PIXEL_LENGTH - 1) :
          LastWriteTo(led, i) =>
            u_pixels.buf[led] = (IF log[i].color \in DOMAIN COLOR_TABLE
                                 THEN Scaled(COLOR_TABLE[log[i].color]) ELSE OFF))
  /\ [][(pc \in {"activate", "utils", "off"}) =>
          /\ (AllFailed(NewEvents, "t") => t_pixels'.buf = t_pixels.buf)
          /\ (AllFailed(NewEvents, "u") => u_pixels'.buf = u_pixels.buf)]_vars
  /\ [](PassComplete =>
          Marks(log, LAMBDA e : IsActive(e) \/ IsUtil(e) \/ IsWait(e)) = Prescribed(Path))

\* a completed pass on the NeoPixel surface whose first step named a position
\* past the end of the strip and whose second step ran the utility with the
\* unknown color, which turned off the LED lit by the init utility
C23_Witness ==
  /\ PassComplete /\ ~dummy
  /\ \E i \in 1..Len(log) : IsActive(log[i]) /\ log[i].res = 1
  /\ \E i \in 1..Len(log) : IsApplied(log[i]) /\ log[i].color = "purple"
  /\ init_ran # <<>> /\ init_ran[1].res = 0
  /\ u_pixels.shown[1] = OFF

\* C24: when the process has exited, on a failed track load, on duplicate ids
\* or on an interrupt, the buffer of each surface equals the frame last shown
\* on it: no pixel write is pending, and after an interrupt that frame is
\* all-off.
C24_NoPartialFrameAtExit ==
  pc = "exited" =>
    /\ t_pixels.buf = t_pixels.shown
    /\ u_pixels.buf = u_pixels.shown
    /\ status = "exit0" =>
         (t_pixels.shown = AllOff(TRACK_PIXEL_LENGTH)
          /\ u_pixels.shown = AllOff(UTIL_PIXEL_LENGTH))

\* the process has exited on duplicate ids with the last frame of the boot
\* animation and the yellow status LED shown
C24_Witness ==
  /\ pc = "exited" /\ status = "exit1"
  /\ BothLoadsOk /\ track_queue = <<>>
  /\ t_pixels.shown # AllOff(TRACK_PIXEL_LENGTH)
  /\ u_pixels.shown[STATUS_UTIL_LED] = Scaled(get_color("status_indicator_yellow"))

\* C25: once the scheduler loop has begun the program stays in it unless an
\* interrupt arrives; whenever the loop is at its head a track can be
\* selected (here for the passes the model follows), and a pass that ends by
\* the caught exception of a track without a path returns to the head of the
\* loop.
C25_SchedulerLoopsUntilInterrupt ==
  /\ [][InScheduler => (InScheduler' \/ interrupted')]_vars
  /\ []((pc = "pick" /\ passes < MaxPasses) => ENABLED PickTrack)
  /\ [][(pc = "pick" /\ ~interrupted' /\ ~track_config'.has_path) =>
          (pc' = "pick" /\ status' = "running" /\ passes' = passes + 1)]_vars

\* two passes in a row ended by the caught exception, and the loop is at its
\* head again
C25_Witness ==
  /\ pc = "pick" /\ status = "running" /\ passes = MaxPasses
  /\ TRACKS # <<>>
  /\ \A k \in 1..Len(TRACKS) : ~TRACKS[k].has_path

\* C26: from the moment boot has taken the collections from the queues, no
\* step changes TRACKS, INIT_UTILS, TRIGGER_UTILS or RANDOM_UTILS: they stay
\* what the two loaders produced.
C26_CollectionsNeverModified ==
  /\ [][pc \notin {"start", "loading"} => UNCHANGED repoVars]_vars
  /\ [](QueuesRead =>
          /\ TRACKS = track_build_init(trackDir).put[1]
          /\ Sets(INIT_UTILS, TRIGGER_UTILS, RANDOM_UTILS) = util_build_init(utilDir).put[1])

\* init utilities, selections, lookups by id and passes have all happened
C26_Witness ==
  /\ pc = "pick" /\ passes = MaxPasses
  /\ Len(TRACKS) = 2 /\ init_ran # <<>>
  /\ \E i \in 1..Len(log) : IsUtil(log[i]) /\ log[i].res = 0

\* the orders in which os.listdir may return the same files
Perms(files) ==
  { [k \in 1..Len(files) |-> files[f[k]]] :
      f \in { g \in [1..Len(files) -> 1..Len(files)] :
                \A i, j \in 1..Len(files) : i # j => g[i] # g[j] } }

\* two runs of the track loader end alike and put the same set of tracks
SameTracks(r1, r2) ==
  /\ r1.exitcode = r2.exitcode
  /\ Len(r1.put) = Len(r2.put)
  /\ r1.put # <<>> => Range(r1.put[1]) = Range(r2.put[1])

\* two runs of the utility loader end alike and put the same three sets
SamePartition(r1, r2) ==
  /\ r1.exitcode = r2.exitcode
  /\ Len(r1.put) = Len(r2.put)
  /\ r1.put # <<>> =>
       /\ Range(r1.put[1].init) = Range(r2.put[1].init)
       /\ Range(r1.put[1].trigger) = Range(r2.put[1].trigger)
       /\ Range(r1.put[1].random) = Range(r2.put[1].random)

\* C27: in whatever order the directory listing returns the same files, the
\* track loader yields the same set of tracks and the utility loader the same
\* init, trigger and random sets (hence the same id sets) as in the order
\* taken, and the repository that boot has read from the queues is that one.
\* The directories do not change, so the orders are compared once, at start.
C27_LoadIsOrderIndependent ==
  /\ pc = "start" =>
       /\ \A p \in Perms(trackDir) :
            SameTracks(track_build_init(p), track_build_init(trackDir))
       /\ \A q \in Perms(utilDir) :
            SamePartition(util_build_init(q), util_build_init(utilDir))
  /\ QueuesRead =>
       /\ Range(TRACKS) = Range(track_build_init(trackDir).put[1])
       /\ Range(INIT_UTILS) = Range(util_build_init(utilDir).put[1].init)
       /\ Range(TRIGGER_UTILS) = Range(util_build_init(utilDir).put[1].trigger)
       /\ Range(RANDOM_UTILS) = Range(util_build_init(utilDir).put[1].random)

\* a repository was loaded from two different track files and two utility
\* files of different categories, which have another listing order
C27_Witness ==
  /\ QueuesRead
  /\ Len(trackDir) = 2 /\ trackDir[1] # trackDir[2] /\ Len(TRACKS) = 2
  /\ Len(utilDir) = 2 /\ Len(INIT_UTILS) = 1 /\ Len(TRIGGER_UTILS) = 1

\* the configuration document exists and lacks a pixel count or a pin
MissingRequired == config.found /\ config.missing # {}

\* C28: with a configuration document that lacks a required field the process
\* never gets past its module-level code: it exits there with status 1,
\* whether the hardware libraries import or not.
C28_MissingFieldIsFatal ==
  MissingRequired =>
    /\ pc \in {"module", "exited"}
    /\ pc = "exited" => status = "exit1"
    /\ TRACKS = <<>>

\* C29: the Loading phase always ends: whatever the size of the loaded
\* collections, once the workers are started the orchestrator sooner or later
\* leaves the loading loop, for validation or with a failed worker's exit.
C29_LoadingAlwaysEnds == (pc = "loading") ~> (pc \in {"validate", "exited"})

\* C30: whenever the scheduler is at a selection the Track collection is
\* non-empty, and the track a selection takes is a member of the collection.
C30_TracksNonEmptyAtSelection ==
  /\ [](pc = "pick" => Len(TRACKS) > 0)
  /\ [][PickTrack => \E k \in 1..Len(TRACKS) : track_config' = TRACKS[k]]_vars

\* a second selection is due over a collection of two tracks
C30_Witness == pc = "pick" /\ passes >= 1 /\ Len(TRACKS) = 2

\* the positions of a frame that hold the active colour
RedAt(frame) == {i \in DOMAIN frame : frame[i] = Scaled(get_color("red"))}

\* C31: during a pass at most one position of the track surface holds the
\* active colour, in the buffer and in the flushed frame, and no position
\* holds it when a step makes its position active: the position of the step
\* before was turned off first.
C31_AtMostOneActive ==
  /\ [](InScheduler => /\ Cardinality(RedAt(t_pixels.buf)) <= 1
                       /\ Cardinality(RedAt(t_pixels.shown)) <= 1)
  /\ [][StepActivate => RedAt(t_pixels.buf) = {}]_vars

\* the second step of a path is active at a position other than the first's
C31_Witness ==
  /\ pc = "utils" /\ step_i = 2
  /\ StepPos(track_config.track_path[1]) \in DOMAIN t_pixels.buf
  /\ StepPos(CurStep) # StepPos(track_config.track_path[1])
  /\ RedAt(t_pixels.shown) = {StepPos(CurStep)}

\* C32: when a pass over a path has run to its end, count_track_utils of the
\* path is the number of run_util_by_id calls the pass has made.
C32_CountIsNumberOfInvocations ==
  PassComplete => count_track_utils(Path) = NumOf(log, IsUtil)

\* ------------------------------------------------------ key logger claims
\* thread d leaves write_to_cache in this step, at the check of the lock file
\* or at the cache write
RefusedAtCheck(d) ==
  threads[d].pc = "check" /\ lock_file /\ threads'[d].pc = "clear"
WriteReturned(d, res) ==
  threads[d].pc = "write" /\ threads'[d].pc = "clear" /\ threads'[d].res = res

\* C33: write_to_cache called while the lock file exists returns False and
\* leaves the cache file as it is, and the cache file changes in no step but
\* the cache write; when it returns True the lock file exists and the cache
\* file holds the confirmed input; when the write failed the lock file is gone.
C33_WriteToCacheProtocol ==
  [][/\ \A d \in Devices :
          /\ RefusedAtCheck(d) => threads'[d].res = "false" /\ cache_file' = cache_file
          /\ WriteReturned(d, "true") => lock_file' /\ cache_file' = current_input
          /\ WriteReturned(d, "false") => ~lock_file'
     /\ cache_file' # cache_file => \E d \in Devices : threads[d].pc = "write"]_vars

\* C34: a lock file left by a successful cache write goes away in no step of
\* the key logger, neither of a monitor thread nor of its shutdown: only the
\* program that processes the cache removes it.
C34_LockFileOutlivesLogger ==
  [][(lock_file /\ lock_from_write /\ ~lock_file') =>
       (ctl_pc' = ctl_pc /\ threads' = threads)]_vars

\* thread d ends its handling of a key in this step
KeyDone(d) == threads[d].pc \in {"handle", "clear"} /\ threads'[d].pc = "read"

\* C35: the cache file changes only in the cache write of an ENTER over a
\* non-empty input; a digit or special key appends itself to the input and
\* touches neither file; when the handling of ENTER ends the input is empty,
\* also when the write was refused because the lock file exists, which
\* leaves the cache file as it was.
C35_EnterWritesAndClears ==
  [][/\ cache_file' # cache_file =>
          \E d \in Devices :
            threads[d].pc = "write" /\ threads[d].key = "ENTER" /\ current_input # <<>>
     /\ \A d \in Devices :
          /\ (KeyDone(d) /\ threads[d].key # "ENTER") =>
               /\ current_input' = Append(current_input, threads[d].key)
               /\ cache_file' = cache_file /\ lock_file' = lock_file
          /\ (KeyDone(d) /\ threads[d].key = "ENTER") =>
               current_input' = <<>> /\ cache_file' = cache_file
          /\ RefusedAtCheck(d) => cache_file' = cache_file /\ lock_file']_vars

\* an input was written, and a later one was confirmed while the lock file
\* was still there: it is gone from the input and the cache holds the earlier
C35_Witness ==
  /\ lock_file /\ lock_from_write /\ cache_file # <<>>
  /\ current_input = <<>>
  /\ \E d \in Devices :
       /\ threads[d].pc = "read" /\ threads[d].key = "ENTER" /\ threads[d].res = "false"
       /\ Len(handled) = 4
       /\ handled[Len(handled)] = <<d, "ENTER">>

\* the keys of device d among the handled ones, in handled order
RECURSIVE KeysOf(_, _)
KeysOf(hist, d) ==
  IF hist = <<>> THEN <<>>
  ELSE (IF Head(hist)[1] = d THEN <<Head(hist)[2]>> ELSE <<>>) \o KeysOf(Tail(hist), d)

\* the keys handled since the last handled ENTER
RECURSIVE SinceEnter(_)
SinceEnter(hist) ==
  IF hist = <<>> \/ hist[Len(hist)][2] = "ENTER" THEN <<>>
  ELSE Append(SinceEnter(SubSeq(hist, 1, Len(hist) - 1)), hist[Len(hist)][2])

\* the events thread d has taken from its device and finished handling
Finished(d) ==
  SubSeq(threads[d].events, 1,
         threads[d].i - 1 - (IF threads[d].pc \in {"acquire"} \cup InHandler THEN 1 ELSE 0))

\* C36: keys from several devices are handled one at a time: at most one
\* thread is inside the handler, the thread inside holds the lock, the keys
\* handled for a device are exactly the events its thread has finished, in
\* the device's order (none lost, none twice), and the input is the handled
\* keys since the last ENTER.
C36_KeysHandledOneAtATime ==
  /\ Cardinality({d \in Devices : threads[d].pc \in InHandler}) <= 1
  /\ \A d \in Devices : threads[d].pc \in InHandler => lock = d
  /\ \A d \in Devices : KeysOf(handled, d) = Finished(d)
  /\ current_input = SinceEnter(handled)

\* keys of both devices are in the input, and one thread is inside the
\* handler while the other waits for the lock
C36_Witness ==
  /\ \E d, e \in Devices :
       threads[d].pc \in InHandler /\ threads[e].pc = "acquire"
  /\ Len(current_input) = 2 /\ current_input[1] # current_input[2]

====
